------------------------- MODULE TableRefreshProofs -------------------------
(***************************************************************************)
(* Proofs about TableRefresh, for any owners, things, tables and number of *)
(* refreshes at a time.                                                    *)
(***************************************************************************)
EXTENDS TableRefresh, FiniteSetTheorems, TLAPS

\* Only a refresh of the positions merges.
MergesPositions == \A j \in Job : pc[j] = "merge" => job[j].table = "positions"

TypeInv == TypeOK /\ MergesPositions

LEMMA HeldType ==
  ASSUME NEW t \in Table, NEW o \in Owner
  PROVE  Held(t, o) \subseteq Thing
  BY AssetAssumption, TableAssumption DEF Held, Thing, Total, OpenPositions, OpenOrders

LEMMA InitTypeInv == Init => TypeInv
  <1> SUFFICES ASSUME Init PROVE TypeInv
    OBVIOUS
  <1> USE DEF Init
  <1>1. first \in [Thing -> Nat]
    BY TimeAssumption
  <1>2. rows \in [Table -> SUBSET Row]
    <2> SUFFICES ASSUME NEW t \in Table, NEW o \in Owner, NEW a \in Held(t, o)
                 PROVE  [id |-> <<0, a>>, thing |-> a, time |-> first[a]] \in Row
      OBVIOUS
    <2>1. a \in Thing
      BY HeldType
    <2> QED
      BY <1>1, <2>1 DEF Row
  <1>3. job \in [Job -> [table : Table, owners : SUBSET Owner, failed : SUBSET Owner,
                         found : SUBSET Nat]]
    BY JobAssumption DEF Fresh
  <1>4. seen \in [Table -> [Owner -> SUBSET Thing]]
    BY HeldType
  <1> QED
    BY <1>1, <1>2, <1>3, <1>4 DEF TypeInv, TypeOK, MergesPositions

\* What a loop makes: one entity for each thing.
LEMMA StampedType ==
  ASSUME TypeOK, NEW things \in SUBSET Thing, NEW stamp \in [things -> Nat]
  PROVE  /\ Stamped(things, stamp) \in SUBSET Row
         /\ \A a : (\E w \in Stamped(things, stamp) : w.thing = a) <=> a \in things
         /\ \A v, w \in Stamped(things, stamp) : v.thing = w.thing => v = w
  <1>1. \A a \in things : [id |-> <<fetches + 1, a>>, thing |-> a, time |-> stamp[a]] \in Row
    BY DEF TypeOK, Row
  <1>2. ASSUME NEW a \in things PROVE \E w \in Stamped(things, stamp) : w.thing = a
    <2>1. [id |-> <<fetches + 1, a>>, thing |-> a, time |-> stamp[a]] \in Stamped(things, stamp)
      BY DEF Stamped
    <2> QED
      BY <2>1
  <1>3. \A w \in Stamped(things, stamp) : w.thing \in things
    BY DEF Stamped
  <1>4. \A v, w \in Stamped(things, stamp) : v.thing = w.thing => v = w
    BY DEF Stamped
  <1>5. Stamped(things, stamp) \in SUBSET Row
    BY <1>1 DEF Stamped
  <1> QED
    BY <1>2, <1>3, <1>4, <1>5

LEMMA PartsType ==
  ASSUME NEW t \in Table, NEW S \in SUBSET Owner, NEW failed \in CanFail(t, S),
         NEW part \in Parts(t, failed)
  PROVE  /\ failed \in SUBSET S
         /\ HeldBy(t, S \ failed) \cup part \in SUBSET Thing
  <1>1. failed \in SUBSET S
    BY DEF CanFail
  <1>2. HeldBy(t, S \ failed) \subseteq Thing /\ HeldBy(t, failed) \subseteq Thing
    BY <1>1, HeldType DEF HeldBy
  <1> QED
    BY <1>1, <1>2 DEF Parts

\* TakeOn with the entities named.
Begun(j, S, failed, things) ==
  /\ pc[j] = "idle"
  /\ fetches' = fetches + 1
  /\ clock' \in {clock, clock + 1}
  /\ job' = [job EXCEPT ![j] = [table |-> job[j].table, owners |-> S, failed |-> failed,
                                found |-> {}]]
  /\ \E stamp \in [things -> Nat] : batch' = [batch EXCEPT ![j] = Stamped(things, stamp)]

LEMMA TakeOnBegun ==
  ASSUME TypeInv, NEW j \in Job, NEW S \in SUBSET Owner, NEW failed \in SUBSET S,
         NEW part \in SUBSET Thing, TakeOn(j, S, failed, part)
  PROVE  Begun(j, S, failed, HeldBy(job[j].table, S \ failed) \cup part)
  <1> DEFINE things == HeldBy(job[j].table, S \ failed) \cup part
  <1>1. clock \in Nat /\ clock' \in Nat
    BY DEF TakeOn, TypeInv, TypeOK
  <1>2. PICK stamp \in [things -> IF LongLoops THEN {clock, clock'} ELSE {clock'}] :
          batch' = [batch EXCEPT ![j] = Stamped(things, stamp)]
    BY DEF TakeOn
  <1>3. stamp \in [things -> Nat]
    <2> HIDE DEF things
    <2>1. (IF LongLoops THEN {clock, clock'} ELSE {clock'}) \subseteq Nat
      BY <1>1
    <2> QED
      BY <2>1
  <1>4. job' = [job EXCEPT ![j] = [table |-> job[j].table, owners |-> S, failed |-> failed,
                                   found |-> {}]]
    BY DEF TakeOn
  <1> HIDE DEF things
  <1>5. \E s \in [things -> Nat] : batch' = [batch EXCEPT ![j] = Stamped(things, s)]
    BY <1>2, <1>3
  <1> QED
    BY <1>4, <1>5 DEF TakeOn, Begun, things

LEMMA BegunType ==
  ASSUME TypeInv, NEW j \in Job, NEW S \in SUBSET Owner, NEW failed \in SUBSET S,
         NEW things \in SUBSET Thing, Begun(j, S, failed, things)
  PROVE  /\ clock' \in Nat /\ fetches' \in Nat
         /\ job' \in [Job -> [table : Table, owners : SUBSET Owner, failed : SUBSET Owner,
                              found : SUBSET Nat]]
         /\ batch' \in [Job -> SUBSET Row]
  <1>1. PICK stamp \in [things -> Nat] : batch' = [batch EXCEPT ![j] = Stamped(things, stamp)]
    BY DEF Begun
  <1>2. Stamped(things, stamp) \in SUBSET Row
    BY StampedType DEF TypeInv
  <1>3. clock' \in Nat /\ fetches' \in Nat
    BY DEF Begun, TypeInv, TypeOK
  <1>4. job' \in [Job -> [table : Table, owners : SUBSET Owner, failed : SUBSET Owner,
                          found : SUBSET Nat]]
    BY DEF Begun, TypeInv, TypeOK
  <1>5. batch' \in [Job -> SUBSET Row]
    BY <1>1, <1>2 DEF TypeInv, TypeOK
  <1> QED
    BY <1>3, <1>4, <1>5

\* What the other refreshes see of one that begins, and what it will save.
LEMMA BegunFrame ==
  ASSUME TypeInv, NEW j \in Job, NEW S \in SUBSET Owner, NEW failed \in SUBSET S,
         NEW things \in SUBSET Thing, Begun(j, S, failed, things)
  PROVE  /\ \A i \in Job \ {j} : job'[i] = job[i] /\ batch'[i] = batch[i]
         /\ job'[j] = [table |-> job[j].table, owners |-> S, failed |-> failed, found |-> {}]
         /\ \A a : (\E w \in batch'[j] : w.thing = a) <=> a \in things
         /\ \A v, w \in batch'[j] : v.thing = w.thing => v = w
  <1>1. PICK stamp \in [things -> Nat] : batch' = [batch EXCEPT ![j] = Stamped(things, stamp)]
    BY DEF Begun
  <1>2. batch'[j] = Stamped(things, stamp) /\ \A i \in Job \ {j} : batch'[i] = batch[i]
    BY <1>1 DEF TypeInv, TypeOK
  <1>3. /\ \A i \in Job \ {j} : job'[i] = job[i]
        /\ job'[j] = [table |-> job[j].table, owners |-> S, failed |-> failed, found |-> {}]
    BY DEF Begun, TypeInv, TypeOK
  <1> QED
    BY <1>2, <1>3, StampedType DEF TypeInv

LEMMA EndType ==
  ASSUME TypeInv, NEW S \in SUBSET Job, End(S)
  PROVE  /\ pc' \in [Job -> {"idle", "merge", "delete", "save", "write", "add", "insert"}]
         /\ job' \in [Job -> [table : Table, owners : SUBSET Owner, failed : SUBSET Owner,
                              found : SUBSET Nat]]
         /\ batch' \in [Job -> SUBSET Row]
         /\ MergesPositions'
  BY DEF TypeInv, TypeOK, End, Fresh, MergesPositions

LEMMA TouchType ==
  ASSUME TypeInv, NEW t \in Table, NEW S \in SUBSET Owner, Touch(t, S)
  PROVE  disturbed' \in [Table -> SUBSET Owner]
  BY DEF TypeInv, TypeOK, Touch

-----------------------------------------------------------------------------
\* A refresh that begins, with what it will save.
Fetched(j, S, failed, things) ==
  /\ Begun(j, S, failed, things)
  /\ HeldBy(job[j].table, S \ failed) \subseteq things
  /\ \A a \in things : \E o \in S : a \in Held(job[j].table, o)
  /\ Goto(j, IF job[j].table = "positions" THEN "merge" ELSE "delete")
  /\ Touch(job[j].table, IF Busy(job[j].table, S) = {} THEN failed
                         ELSE S \cup UNION {job[i].owners : i \in Busy(job[j].table, S)})
  /\ UNCHANGED <<phase, rows, first, lost, crowded, seen>>

LEMMA FetchFetched ==
  ASSUME TypeInv, NEW j \in Job, Fetch(j)
  PROVE  \E S \in SUBSET Owner : \E failed \in SUBSET S : \E things \in SUBSET Thing :
           Fetched(j, S, failed, things)
  <1> DEFINE t == job[j].table
             Rest(S, failed) ==
               /\ Goto(j, IF t = "positions" THEN "merge" ELSE "delete")
               /\ Touch(t, IF Busy(t, S) = {} THEN failed
                           ELSE S \cup UNION {job[i].owners : i \in Busy(t, S)})
               /\ UNCHANGED <<phase, rows, first, lost, crowded, seen>>
  <1>1. t \in Table
    BY DEF TypeInv, TypeOK
  <1>2. PICK S \in (SUBSET Owner) \ {{}} : \E failed \in CanFail(t, S) :
          /\ \E part \in Parts(t, failed) : TakeOn(j, S, failed, part)
          /\ Rest(S, failed)
    BY DEF Fetch
  <1>3. PICK failed \in CanFail(t, S) :
          /\ \E part \in Parts(t, failed) : TakeOn(j, S, failed, part)
          /\ Rest(S, failed)
    BY <1>2
  <1>4. PICK part \in Parts(t, failed) : TakeOn(j, S, failed, part)
    BY <1>3
  <1> DEFINE things == HeldBy(t, S \ failed) \cup part
  <1>5. failed \in SUBSET S
    BY DEF CanFail
  <1>6. /\ \A a \in HeldBy(t, S \ failed) : \E o \in S : a \in Held(t, o)
        /\ \A a \in HeldBy(t, failed) : \E o \in S : a \in Held(t, o)
    BY <1>5 DEF HeldBy
  <1>7. part \subseteq HeldBy(t, failed)
    BY DEF Parts
  <1>8. \A a \in things : \E o \in S : a \in Held(t, o)
    BY <1>6, <1>7
  <1>9. \A o \in S : Held(t, o) \subseteq Thing
    BY <1>1, HeldType
  <1>10. things \in SUBSET Thing /\ part \in SUBSET Thing
    BY <1>8, <1>9
  <1>11. Begun(j, S, failed, things)
    BY <1>4, <1>5, <1>10, TakeOnBegun
  <1>12. Fetched(j, S, failed, things)
    BY <1>3, <1>8, <1>11 DEF Fetched
  <1> HIDE DEF things
  <1> QED
    BY <1>5, <1>10, <1>12

LEMMA FetchType ==
  ASSUME TypeInv, NEW j \in Job, Fetch(j)
  PROVE  TypeInv'
  <1> DEFINE t == job[j].table
  <1>1. t \in Table
    BY DEF TypeInv, TypeOK
  <1>2. PICK S \in SUBSET Owner : \E failed \in SUBSET S : \E things \in SUBSET Thing :
          Fetched(j, S, failed, things)
    BY FetchFetched
  <1>3. PICK failed \in SUBSET S : \E things \in SUBSET Thing :
          Fetched(j, S, failed, things)
    BY <1>2
  <1>4. PICK things \in SUBSET Thing : Fetched(j, S, failed, things)
    BY <1>3
  <1>5. UNION {job[i].owners : i \in Busy(t, S)} \subseteq Owner
    BY DEF Busy, TypeInv, TypeOK
  <1>6. Begun(j, S, failed, things)
    BY <1>4 DEF Fetched
  <1>7. /\ clock' \in Nat /\ fetches' \in Nat
        /\ job' \in [Job -> [table : Table, owners : SUBSET Owner, failed : SUBSET Owner,
                             found : SUBSET Nat]]
        /\ batch' \in [Job -> SUBSET Row]
    BY <1>6, BegunType
  <1>8. disturbed' \in [Table -> SUBSET Owner]
    <2> DEFINE touched == IF Busy(t, S) = {} THEN failed
                          ELSE S \cup UNION {job[i].owners : i \in Busy(t, S)}
    <2>1. touched \in SUBSET Owner
      BY <1>5
    <2>2. Touch(t, touched)
      BY <1>4 DEF Fetched
    <2> HIDE DEF touched, t
    <2> QED
      BY <1>1, <2>1, <2>2, TouchType
  <1>9. /\ pc' = [pc EXCEPT ![j] = IF t = "positions" THEN "merge" ELSE "delete"]
        /\ UNCHANGED <<phase, rows, first, lost, crowded, seen>>
    BY <1>4 DEF Fetched, Goto
  <1>10. pc' \in [Job -> {"idle", "merge", "delete", "save", "write", "add", "insert"}]
    BY <1>9 DEF TypeInv, TypeOK
  <1>11. MergesPositions'
    BY <1>6, <1>9 DEF Begun, TypeInv, TypeOK, MergesPositions
  <1> QED
    BY <1>7, <1>8, <1>9, <1>10, <1>11 DEF TypeInv, TypeOK

\* A new key's rows.
Adding(j, o, failed, things) ==
  /\ Begun(j, {o}, failed, things)
  /\ \A a \in things : a[1] = o
  /\ disturbed' = [disturbed EXCEPT ![job[j].table] = @ \cup {o}]
  /\ crowded' = [crowded EXCEPT ![job[j].table] = @ \cup {o}]
  /\ pc' = [pc EXCEPT ![j] = "add"]
  /\ UNCHANGED <<phase, rows, first, lost, seen>>

LEMMA HeldOwner ==
  ASSUME NEW t \in Table, NEW o \in Owner, NEW a \in Held(t, o)
  PROVE  a[1] = o
  BY TableAssumption DEF Held, Total, OpenPositions, OpenOrders

LEMMA AddNewAdding ==
  ASSUME TypeInv, NEW j \in Job, AddNew(j)
  PROVE  \E o \in Owner : \E failed \in SUBSET {o} : \E things \in SUBSET Thing :
           Adding(j, o, failed, things)
  <1> DEFINE t == job[j].table
  <1>1. PICK o \in Owner : \E failed \in SUBSET {o} :
          /\ \E part \in Parts(t, failed) : TakeOn(j, {o}, failed, part)
          /\ Touch(t, {o})
          /\ Crowd(t, {o})
    BY DEF AddNew
  <1>2. PICK failed \in SUBSET {o} :
          /\ \E part \in Parts(t, failed) : TakeOn(j, {o}, failed, part)
          /\ Touch(t, {o})
          /\ Crowd(t, {o})
    BY <1>1
  <1>3. PICK part \in Parts(t, failed) : TakeOn(j, {o}, failed, part)
    BY <1>2
  <1>4. t \in Table
    BY DEF TypeInv, TypeOK
  <1> DEFINE things == HeldBy(t, {o} \ failed) \cup part
  <1>5. \A a \in things : a \in Held(t, o)
    <2>1. part \subseteq HeldBy(t, failed)
      BY DEF Parts
    <2> QED
      BY <2>1 DEF HeldBy
  <1>6. \A a \in things : a[1] = o /\ a \in Thing
    BY <1>4, <1>5, HeldOwner, HeldType
  <1>7. Begun(j, {o}, failed, things)
    BY <1>3, <1>6, TakeOnBegun
  <1>8. /\ pc' = [pc EXCEPT ![j] = "add"]
        /\ UNCHANGED <<phase, rows, first, lost, seen>>
    BY DEF AddNew, Goto
  <1> HIDE DEF things
  <1>9. Adding(j, o, failed, things)
    BY <1>2, <1>6, <1>7, <1>8 DEF Adding, Touch, Crowd
  <1> QED
    BY <1>6, <1>9

LEMMA AddNewType ==
  ASSUME TypeInv, NEW j \in Job, AddNew(j)
  PROVE  TypeInv'
  <1>1. PICK o \in Owner : \E failed \in SUBSET {o} : \E things \in SUBSET Thing :
          Adding(j, o, failed, things)
    BY AddNewAdding
  <1>2. PICK failed \in SUBSET {o} : \E things \in SUBSET Thing : Adding(j, o, failed, things)
    BY <1>1
  <1>3. PICK things \in SUBSET Thing : Adding(j, o, failed, things)
    BY <1>2
  <1>4. job[j].table \in Table
    BY DEF TypeInv, TypeOK
  <1>5. Begun(j, {o}, failed, things)
    BY <1>3 DEF Adding
  <1>6. /\ clock' \in Nat /\ fetches' \in Nat
        /\ job' \in [Job -> [table : Table, owners : SUBSET Owner, failed : SUBSET Owner,
                             found : SUBSET Nat]]
        /\ batch' \in [Job -> SUBSET Row]
    BY <1>5, BegunType
  <1>7. disturbed' \in [Table -> SUBSET Owner] /\ crowded' \in [Table -> SUBSET Owner]
    BY <1>3, <1>4 DEF Adding, TypeInv, TypeOK
  <1>8. MergesPositions'
    BY <1>3, <1>5 DEF Adding, Begun, TypeInv, TypeOK, MergesPositions
  <1> QED
    BY <1>3, <1>6, <1>7, <1>8 DEF Adding, TypeInv, TypeOK

LEMMA MergeType ==
  ASSUME TypeInv, NEW j \in Job, Merge(j)
  PROVE  TypeInv'
  <1>1. "positions" \in Table
    BY DEF Merge, TypeInv, TypeOK, MergesPositions
  <1>2. PICK old \in [batch[j] -> rows["positions"] \cup batch[j]] :
          batch' = [batch EXCEPT ![j] = {[w EXCEPT !.time = old[w].time] : w \in batch[j]}]
    BY DEF Merge
  <1>3. {[w EXCEPT !.time = old[w].time] : w \in batch[j]} \in SUBSET Row
    <2> SUFFICES ASSUME NEW w \in batch[j] PROVE [w EXCEPT !.time = old[w].time] \in Row
      OBVIOUS
    <2>1. w \in Row /\ old[w] \in Row
      BY <1>1, <1>2 DEF TypeInv, TypeOK
    <2> QED
      BY <2>1 DEF Row
  <1>4. batch' \in [Job -> SUBSET Row]
    BY <1>2, <1>3 DEF TypeInv, TypeOK
  <1> QED
    BY <1>4 DEF Merge, Goto, history, TypeInv, TypeOK, MergesPositions

LEMMA DeleteType ==
  ASSUME TypeInv, NEW j \in Job, Delete(j)
  PROVE  TypeInv'
  BY DEF Delete, Goto, TypeInv, TypeOK, MergesPositions

\* The times found are all that changes when a save looks.
LEMMA LookFrame ==
  ASSUME TypeInv, NEW j \in Job, Look(j)
  PROVE  /\ pc[j] \in {"save", "add"}
         /\ pc'[j] = IF pc[j] = "save" THEN "write" ELSE "insert"
         /\ \A i \in Job \ {j} : pc'[i] = pc[i] /\ job'[i] = job[i]
         /\ \A i \in Job : /\ job'[i].table = job[i].table
                           /\ job'[i].owners = job[i].owners
                           /\ job'[i].failed = job[i].failed
         /\ UNCHANGED <<phase, rows, clock, fetches, batch, history>>
  BY DEF Look, Goto, TypeInv, TypeOK

LEMMA LookType ==
  ASSUME TypeInv, NEW j \in Job, Look(j)
  PROVE  TypeInv'
  <1>1. Times(batch[j]) \cap Times(rows[job[j].table]) \in SUBSET Nat
    BY DEF Times, TypeInv, TypeOK, Row
  <1>2. job' \in [Job -> [table : Table, owners : SUBSET Owner, failed : SUBSET Owner,
                          found : SUBSET Nat]]
    <2> DEFINE found == Times(batch[j]) \cap Times(rows[job[j].table])
    <2>1. found \in SUBSET Nat /\ job' = [job EXCEPT ![j] = [job[j] EXCEPT !.found = found]]
      BY <1>1 DEF Look
    <2> HIDE DEF found
    <2>2. [job[j] EXCEPT !.found = found] \in
            [table : Table, owners : SUBSET Owner, failed : SUBSET Owner, found : SUBSET Nat]
      BY <2>1 DEF TypeInv, TypeOK
    <2> QED
      BY <2>1, <2>2 DEF TypeInv, TypeOK
  <1>3. pc' \in [Job -> {"idle", "merge", "delete", "save", "write", "add", "insert"}]
    BY DEF Look, Goto, TypeInv, TypeOK
  <1>4. MergesPositions'
    BY LookFrame DEF TypeInv, MergesPositions
  <1> QED
    BY <1>2, <1>3, <1>4, LookFrame DEF history, TypeInv, TypeOK

\* The rows that a save leaves: those of owners whom no update strikes are as if it
\* had only inserted, and whatever else there is belongs to owners who are struck.
LEMMA SaveFrame ==
  ASSUME TypeInv, NEW j \in Job, Save(j)
  PROVE  /\ rows'[job[j].table] \in SUBSET Row
         /\ \A t \in Table \ {job[j].table} : rows'[t] = rows[t]
         /\ \A w \in rows[job[j].table] \cup batch[j] :
              w.thing[1] \in Struck(j) \/ w \in rows'[job[j].table]
         /\ \A w \in rows'[job[j].table] :
              w.thing[1] \in Struck(j) \/ w \in rows[job[j].table] \cup batch[j]
         /\ Struck(j) \in SUBSET Owner
         /\ rows' \in [Table -> SUBSET Row]
  <1> DEFINE t == job[j].table
  <1>1. t \in Table /\ rows[t] \in SUBSET Row /\ batch[j] \in SUBSET Row
    BY DEF TypeInv, TypeOK
  <1>2. PICK new \in [Hit(j) -> UNION {Rewritten(j, v) : v \in Hit(j)}] :
          /\ \A v \in Hit(j) : new[v] \in Rewritten(j, v)
          /\ rows' = [rows EXCEPT ![t] = Written(j, new)]
    BY DEF Save
  <1>3. /\ rows'[t] = Written(j, new)
        /\ \A u \in Table \ {t} : rows'[u] = rows[u]
    BY <1>1, <1>2 DEF TypeInv, TypeOK
  <1>4. Hit(j) \subseteq rows[t] /\ Updates(j) \subseteq batch[j]
    BY DEF Hit, Updates
  <1>5. \A w \in Hit(j) \cup Updates(j) : w.thing[1] \in Struck(j) /\ w \in Row
    BY <1>1, <1>4 DEF Struck
  <1>6. \A w \in Row : w.thing \in Thing
    BY DEF Row
  <1>7. ASSUME NEW v \in Hit(j) PROVE new[v] \in Row /\ new[v].thing[1] \in Struck(j)
    <2> DEFINE said == {v.thing} \cup {w.thing : w \in {u \in Updates(j) : u.time = v.time}}
    <2>1. \A a \in said : a \in Thing /\ a[1] \in Struck(j)
      BY <1>5, <1>6
    <2>2. PICK a \in said, b \in said : new[v] = [v EXCEPT !.thing = <<a[1], b[2]>>]
      BY <1>2 DEF Rewritten
    <2> HIDE DEF said
    <2>3. <<a[1], b[2]>> \in Thing /\ a[1] \in Struck(j)
      BY <2>1 DEF Thing
    <2>4. v \in Row
      BY <1>5
    <2> QED
      BY <2>2, <2>3, <2>4 DEF Row
  <1>8. rows'[t] = (rows[t] \ Hit(j)) \cup {new[v] : v \in Hit(j)} \cup (batch[j] \ Updates(j))
    BY <1>3 DEF Written
  <1>9. rows'[t] \in SUBSET Row
    BY <1>1, <1>7, <1>8
  <1>10. Struck(j) \in SUBSET Owner
    BY <1>1, <1>4, <1>6 DEF Struck, Thing
  <1>11. rows' \in [Table -> SUBSET Row]
    BY <1>2, <1>3, <1>9 DEF TypeInv, TypeOK
  <1> HIDE DEF t
  <1>12. \A w \in rows[t] \cup batch[j] : w.thing[1] \in Struck(j) \/ w \in rows'[t]
    BY <1>5, <1>8
  <1>13. \A w \in rows'[t] : w.thing[1] \in Struck(j) \/ w \in rows[t] \cup batch[j]
    BY <1>7, <1>8
  <1> QED
    BY <1>3, <1>9, <1>10, <1>11, <1>12, <1>13 DEF t

\* Who is excused by a save.
LEMMA SaveHistory ==
  ASSUME TypeInv, NEW j \in Job, Save(j)
  PROVE  /\ disturbed'[job[j].table] = disturbed[job[j].table] \cup Struck(j)
         /\ crowded'[job[j].table] = crowded[job[j].table] \cup Struck(j)
         /\ lost'[job[j].table] =
              (lost[job[j].table] \ (IF Deleted(j) THEN job[j].owners \ job[j].failed ELSE {}))
                \cup Struck(j)
         /\ \A t \in Table \ {job[j].table} : /\ disturbed'[t] = disturbed[t]
                                              /\ crowded'[t] = crowded[t]
                                              /\ lost'[t] = lost[t]
         /\ disturbed' \in [Table -> SUBSET Owner]
         /\ crowded' \in [Table -> SUBSET Owner]
         /\ lost' \in [Table -> SUBSET Owner]
  <1> DEFINE t == job[j].table
             X == IF Deleted(j) THEN job[j].owners \ job[j].failed ELSE {}
  <1>1. t \in Table /\ Struck(j) \in SUBSET Owner /\ X \in SUBSET Owner
    BY SaveFrame DEF TypeInv, TypeOK
  <1>2. /\ disturbed' = [disturbed EXCEPT ![t] = @ \cup Struck(j)]
        /\ crowded' = [crowded EXCEPT ![t] = @ \cup Struck(j)]
    BY DEF Save, Touch, Crowd
  <1>3. lost' = [lost EXCEPT ![t] = (@ \ X) \cup Struck(j)]
    <2>1. CASE pc[j] = "insert"
      <3>1. lost' = [lost EXCEPT ![t] = @ \cup Struck(j)] /\ X = {}
        BY <2>1 DEF Save, Deleted
      <3> HIDE DEF X, t
      <3> QED
        BY <3>1
    <2>2. CASE pc[j] = "write"
      BY <2>2 DEF Save, Deleted
    <2> QED
      BY <2>1, <2>2 DEF Save
  <1> HIDE DEF X, t
  <1>4. /\ disturbed' \in [Table -> SUBSET Owner] /\ crowded' \in [Table -> SUBSET Owner]
        /\ lost' \in [Table -> SUBSET Owner]
    BY <1>1, <1>2, <1>3 DEF TypeInv, TypeOK
  <1>5. /\ disturbed'[t] = disturbed[t] \cup Struck(j)
        /\ crowded'[t] = crowded[t] \cup Struck(j)
        /\ lost'[t] = (lost[t] \ X) \cup Struck(j)
        /\ \A u \in Table \ {t} : /\ disturbed'[u] = disturbed[u]
                                  /\ crowded'[u] = crowded[u]
                                  /\ lost'[u] = lost[u]
    BY <1>1, <1>2, <1>3 DEF TypeInv, TypeOK
  <1> QED
    BY <1>4, <1>5 DEF X, t

\* What the table is taken to hold after a save.
LEMMA SaveSeen ==
  ASSUME TypeInv, NEW j \in Job, Save(j)
  PROVE  /\ \A q \in Owner : seen'[job[j].table][q] =
              IF Deleted(j) /\ q \in job[j].owners
              THEN {w.thing : w \in {v \in batch[j] : v.thing[1] = q}} ELSE seen[job[j].table][q]
         /\ \A t \in Table \ {job[j].table} : seen'[t] = seen[t]
         /\ seen' \in [Table -> [Owner -> SUBSET Thing]]
  <1> DEFINE t == job[j].table
  <1>1. t \in Table /\ \A v \in batch[j] : v.thing \in Thing
    BY DEF TypeInv, TypeOK, Row
  <1>2. CASE pc[j] = "insert"
    BY <1>1, <1>2 DEF Save, Deleted, TypeInv, TypeOK
  <1>3. CASE pc[j] = "write"
    <2> DEFINE new == [o \in Owner |-> IF o \in job[j].owners
                          THEN {w.thing : w \in {v \in batch[j] : v.thing[1] = o}}
                          ELSE seen[t][o]]
    <2>1. new \in [Owner -> SUBSET Thing]
      BY <1>1 DEF TypeInv, TypeOK
    <2>2. seen' = [seen EXCEPT ![t] = new]
      BY <1>3 DEF Save
    <2>3. seen'[t] = new /\ \A u \in Table \ {t} : seen'[u] = seen[u]
      <3> HIDE DEF new, t
      <3> QED
        BY <1>1, <2>2 DEF TypeInv, TypeOK
    <2>4. seen' \in [Table -> [Owner -> SUBSET Thing]]
      <3> HIDE DEF new, t
      <3> QED
        BY <1>1, <2>1, <2>2 DEF TypeInv, TypeOK
    <2> QED
      BY <1>3, <2>3, <2>4 DEF Deleted
  <1> QED
    BY <1>2, <1>3 DEF Save

LEMMA SaveType ==
  ASSUME TypeInv, NEW j \in Job, Save(j)
  PROVE  TypeInv'
  <1>1. End({j}) /\ UNCHANGED <<phase, clock, fetches, first>>
    BY DEF Save
  <1> QED
    BY <1>1, EndType, SaveFrame, SaveHistory, SaveSeen DEF TypeInv, TypeOK

LEMMA RejectType ==
  ASSUME TypeInv, NEW j \in Job, Reject(j)
  PROVE  TypeInv'
  <1> DEFINE S == IF Deleted(j) THEN job[j].owners ELSE {}
  <1>1. /\ lost' = [lost EXCEPT ![job[j].table] = @ \cup S]
        /\ Touch(job[j].table, S)
        /\ End({j})
        /\ UNCHANGED <<phase, rows, clock, fetches, first, crowded, seen>>
    BY DEF Reject
  <1>2. S \in SUBSET Owner /\ job[j].table \in Table
    BY DEF TypeInv, TypeOK
  <1> HIDE DEF S
  <1>3. lost' \in [Table -> SUBSET Owner]
    BY <1>1, <1>2 DEF TypeInv, TypeOK
  <1> QED
    BY <1>1, <1>2, <1>3, EndType, TouchType DEF TypeInv, TypeOK

LEMMA WindowType ==
  ASSUME TypeInv, NEW t \in Table
  PROVE  Window(t) \subseteq Owner
  BY DEF Window, Deleted, TypeInv, TypeOK

LEMMA RestartType ==
  ASSUME TypeInv, Restart
  PROVE  TypeInv'
  <1>1. /\ lost' \in [Table -> SUBSET Owner]
        /\ disturbed' \in [Table -> SUBSET Owner]
    BY WindowType DEF Restart, TypeInv, TypeOK
  <1> QED
    BY <1>1, EndType DEF Restart, TypeInv, TypeOK

LEMMA MoveType ==
  ASSUME TypeInv, NEW a \in Asset, Move(a)
  PROVE  TypeInv'
  BY DEF Move, jobs, history, TypeInv, TypeOK, MergesPositions

LEMMA NextTypeInv ==
  ASSUME TypeInv, [Next]_vars
  PROVE  TypeInv'
  <1>1. CASE UNCHANGED vars
    BY <1>1 DEF vars, jobs, history, TypeInv, TypeOK, MergesPositions
  <1> QED
    BY <1>1, FetchType, AddNewType, MergeType, DeleteType, LookType, SaveType, RejectType,
       RestartType, MoveType DEF Next

\* The tables and the refreshes hold values of their types; what is saved are rows.
THEOREM TypesHold == Spec => []TypeOK
  <1>1. TypeInv => TypeOK
    BY DEF TypeInv
  <1> QED
    BY <1>1, InitTypeInv, NextTypeInv, PTL DEF Spec

-----------------------------------------------------------------------------
(***************************************************************************)
(* RowsUnlessLost.  Its second half is sharpened: an owner without a row   *)
(* who is not lost has a refresh that is about to save one, and whose      *)
(* answer came; so every batch must hold all that stays open.              *)
(***************************************************************************)
HasRow(t, a) == \E w \in rows[t] : w.thing = a

InBatch(j, a) == \E w \in batch[j] : w.thing = a

Answering(j, a) == a[1] \in job[j].owners \ job[j].failed

ToSave(j, t, a) == pc[j] \in {"save", "write"} /\ job[j].table = t /\ Answering(j, a)

RowOrReason ==
  \A t \in Table : \A a \in SteadyIn(t) :
    HasRow(t, a) \/ a[1] \in lost[t] \/ \E j \in Job : ToSave(j, t, a)

BatchFull ==
  \A j \in Job : pc[j] \in {"merge", "delete", "save", "write"} =>
    \A a \in SteadyIn(job[j].table) : Answering(j, a) => InBatch(j, a)

RowsInv == TypeInv /\ RowOrReason /\ BatchFull

LEMMA SteadyHeld ==
  ASSUME NEW t \in Table, NEW a \in SteadyIn(t)
  PROVE  a[1] \in Owner /\ a \in Held(t, a[1])
  <1>1. CASE a \in Steady /\ a \in Held(t, a[1])
    BY <1>1, AssetAssumption, SteadyAssumption DEF Thing
  <1>2. CASE t = "profits" /\ a \in {Total[o] : o \in Owner}
    <2>1. PICK o \in Owner : a = Total[o]
      BY <1>2
    <2>2. a[1] = o
      BY <2>1 DEF Total
    <2> QED
      BY <1>2, <2>1, <2>2 DEF Held
  <1> QED
    BY <1>1, <1>2 DEF SteadyIn

LEMMA SteadyKept ==
  ASSUME TypeInv, Next, NEW t \in Table
  PROVE  SteadyIn(t)' = SteadyIn(t)
  <1>1. ASSUME UNCHANGED phase
        PROVE  SteadyIn(t)' = SteadyIn(t)
    BY <1>1 DEF SteadyIn, Held, OpenPositions, OpenOrders
  <1>2. ASSUME NEW b \in Asset, Move(b)
        PROVE  SteadyIn(t)' = SteadyIn(t)
    <2>1. \A a \in Steady : phase'[a] = phase[a]
      BY <1>2, SteadyAssumption DEF Move, TypeInv, TypeOK
    <2>2. \A a \in Steady : a \in Held(t, a[1])' <=> a \in Held(t, a[1])
      BY <2>1, TableAssumption DEF Held, OpenPositions, OpenOrders
    <2> QED
      BY <2>2 DEF SteadyIn
  <1>3. CASE UNCHANGED phase
    BY <1>1, <1>3
  <1>4. CASE \E b \in Asset : Move(b)
    BY <1>2, <1>4
  <1> QED
    BY <1>3, <1>4 DEF Next, Fetch, AddNew, Merge, Delete, Look, Save, Reject, Restart

LEMMA EndFrame ==
  ASSUME TypeInv, NEW S \in SUBSET Job, End(S)
  PROVE  /\ \A i \in Job \ S : pc'[i] = pc[i] /\ job'[i] = job[i] /\ batch'[i] = batch[i]
         /\ \A i \in S : /\ pc'[i] = "idle" /\ batch'[i] = {}
                         /\ job'[i] = [table |-> job[i].table, owners |-> {}, failed |-> {},
                                      found |-> {}]
  BY DEF End, Fresh, TypeInv, TypeOK

LEMMA FetchRows ==
  ASSUME RowsInv, NEW j \in Job, Fetch(j), TypeInv'
  PROVE  RowOrReason' /\ BatchFull'
  <1> DEFINE t == job[j].table
  <1>1. PICK S \in SUBSET Owner : \E failed \in SUBSET S : \E things \in SUBSET Thing :
          Fetched(j, S, failed, things)
    BY FetchFetched DEF RowsInv
  <1>2. PICK failed \in SUBSET S : \E things \in SUBSET Thing :
          Fetched(j, S, failed, things)
    BY <1>1
  <1>3. PICK things \in SUBSET Thing : Fetched(j, S, failed, things)
    BY <1>2
  <1>4. Begun(j, S, failed, things)
    BY <1>3 DEF Fetched
  <1>5. /\ \A i \in Job \ {j} : job'[i] = job[i] /\ batch'[i] = batch[i]
        /\ job'[j] = [table |-> t, owners |-> S, failed |-> failed, found |-> {}]
        /\ \A a : (\E w \in batch'[j] : w.thing = a) <=> a \in things
        /\ \A v, w \in batch'[j] : v.thing = w.thing => v = w
    BY <1>4, BegunFrame DEF RowsInv
  <1>6. /\ \A i \in Job \ {j} : pc'[i] = pc[i]
        /\ rows' = rows /\ lost' = lost
        /\ pc[j] = "idle"
    BY <1>3, <1>4 DEF Fetched, Begun, Goto, RowsInv, TypeInv, TypeOK
  <1>7. \A u \in Table : SteadyIn(u)' = SteadyIn(u)
    BY SteadyKept DEF RowsInv, Next
  <1>8. \A a \in SteadyIn(t) : a[1] \in S \ failed => a \in things
    BY <1>3, SteadyHeld DEF Fetched, HeldBy, RowsInv, TypeInv, TypeOK
  <1>9. RowOrReason'
    <2> SUFFICES ASSUME NEW u \in Table, NEW a \in SteadyIn(u)
                 PROVE  (HasRow(u, a) \/ a[1] \in lost[u] \/ \E i \in Job : ToSave(i, u, a))'
      BY <1>7 DEF RowOrReason
    <2> QED
      BY <1>5, <1>6 DEF RowsInv, RowOrReason, HasRow, ToSave, Answering
  <1>10. BatchFull'
    <2> SUFFICES ASSUME NEW i \in Job, pc'[i] \in {"merge", "delete", "save", "write"},
                        NEW a \in SteadyIn(job'[i].table), Answering(i, a)'
                 PROVE  InBatch(i, a)'
      BY <1>7 DEF BatchFull, TypeInv, TypeOK
    <2>1. CASE i = j
      BY <1>5, <1>8, <2>1 DEF Answering, InBatch
    <2>2. CASE i # j
      BY <1>5, <1>6, <2>2 DEF RowsInv, BatchFull, Answering, InBatch
    <2> QED
      BY <2>1, <2>2
  <1> QED
    BY <1>9, <1>10

LEMMA AddNewRows ==
  ASSUME RowsInv, NEW j \in Job, AddNew(j), TypeInv'
  PROVE  RowOrReason' /\ BatchFull'
  <1>1. PICK o \in Owner : \E failed \in SUBSET {o} : \E things \in SUBSET Thing :
          Adding(j, o, failed, things)
    BY AddNewAdding DEF RowsInv
  <1>1a. PICK failed \in SUBSET {o} : \E things \in SUBSET Thing : Adding(j, o, failed, things)
    BY <1>1
  <1>1b. PICK things \in SUBSET Thing : Adding(j, o, failed, things)
    BY <1>1a
  <1>2. /\ \A i \in Job \ {j} : job'[i] = job[i] /\ batch'[i] = batch[i]
        /\ \A i \in Job : job'[i].table = job[i].table
    BY <1>1b DEF Adding, Begun, RowsInv, TypeInv, TypeOK
  <1>3. /\ \A i \in Job \ {j} : pc'[i] = pc[i]
        /\ pc'[j] = "add" /\ pc[j] = "idle"
        /\ rows' = rows /\ lost' = lost
    BY <1>1b DEF Adding, Begun, RowsInv, TypeInv, TypeOK
  <1>4. \A u \in Table : SteadyIn(u)' = SteadyIn(u)
    BY SteadyKept DEF RowsInv, Next
  <1>5. RowOrReason'
    <2> SUFFICES ASSUME NEW u \in Table, NEW a \in SteadyIn(u)
                 PROVE  (HasRow(u, a) \/ a[1] \in lost[u] \/ \E i \in Job : ToSave(i, u, a))'
      BY <1>4 DEF RowOrReason
    <2> QED
      BY <1>2, <1>3 DEF RowsInv, RowOrReason, HasRow, ToSave, Answering
  <1>6. BatchFull'
    <2> SUFFICES ASSUME NEW i \in Job, pc'[i] \in {"merge", "delete", "save", "write"},
                        NEW a \in SteadyIn(job'[i].table), Answering(i, a)'
                 PROVE  InBatch(i, a)'
      BY <1>4 DEF BatchFull, TypeInv, TypeOK
    <2>1. i # j
      BY <1>3
    <2> QED
      BY <1>2, <1>3, <2>1 DEF RowsInv, BatchFull, Answering, InBatch
  <1> QED
    BY <1>5, <1>6

\* Merging changes the times of a batch, not what it is about.
LEMMA MergeThings ==
  ASSUME TypeInv, NEW j \in Job, Merge(j)
  PROVE  /\ \A a : InBatch(j, a)' <=> InBatch(j, a)
         /\ \A v \in batch'[j] : \E w \in batch[j] : v.thing = w.thing
         /\ (\A v, w \in batch[j] : v.thing = w.thing => v = w)
              => \A v, w \in batch'[j] : v.thing = w.thing => v = w
         /\ \A i \in Job \ {j} : batch'[i] = batch[i]
  <1>1. PICK old \in [batch[j] -> rows["positions"] \cup batch[j]] :
          batch' = [batch EXCEPT ![j] = {[w EXCEPT !.time = old[w].time] : w \in batch[j]}]
    BY DEF Merge
  <1> DEFINE new(w) == [w EXCEPT !.time = old[w].time]
  <1>2. \A w \in batch[j] : new(w).thing = w.thing
    <2> SUFFICES ASSUME NEW w \in batch[j] PROVE new(w).thing = w.thing
      OBVIOUS
    <2>1. w \in Row
      BY DEF TypeInv, TypeOK
    <2> QED
      BY <2>1 DEF Row
  <1>3. /\ batch'[j] = {new(w) : w \in batch[j]}
        /\ \A i \in Job \ {j} : batch'[i] = batch[i]
    BY <1>1 DEF TypeInv, TypeOK
  <1> HIDE DEF new
  <1>4. \A a : InBatch(j, a)' <=> InBatch(j, a)
    BY <1>2, <1>3 DEF InBatch
  <1>5. \A v \in batch'[j] : \E w \in batch[j] : v.thing = w.thing
    BY <1>2, <1>3
  <1>6. ASSUME \A v, w \in batch[j] : v.thing = w.thing => v = w
        PROVE  \A v, w \in batch'[j] : v.thing = w.thing => v = w
    BY <1>2, <1>3, <1>6
  <1> QED
    BY <1>3, <1>4, <1>5, <1>6

LEMMA MergeRows ==
  ASSUME RowsInv, NEW j \in Job, Merge(j), TypeInv'
  PROVE  RowOrReason' /\ BatchFull'
  <1>1. /\ \A i \in Job \ {j} : pc'[i] = pc[i]
        /\ pc[j] = "merge" /\ pc'[j] = "delete"
        /\ job' = job /\ rows' = rows /\ lost' = lost
    BY DEF Merge, Goto, history, RowsInv, TypeInv, TypeOK
  <1>2. \A u \in Table : SteadyIn(u)' = SteadyIn(u)
    BY SteadyKept DEF RowsInv, Next
  <1>3. RowOrReason'
    <2> SUFFICES ASSUME NEW u \in Table, NEW a \in SteadyIn(u)
                 PROVE  (HasRow(u, a) \/ a[1] \in lost[u] \/ \E i \in Job : ToSave(i, u, a))'
      BY <1>2 DEF RowOrReason
    <2> QED
      BY <1>1 DEF RowsInv, RowOrReason, HasRow, ToSave, Answering
  <1>4. BatchFull'
    <2> SUFFICES ASSUME NEW i \in Job, pc'[i] \in {"merge", "delete", "save", "write"},
                        NEW a \in SteadyIn(job[i].table), Answering(i, a)
                 PROVE  InBatch(i, a)'
      BY <1>1, <1>2 DEF BatchFull, Answering, RowsInv, TypeInv, TypeOK
    <2>1. pc[i] \in {"merge", "delete", "save", "write"}
      BY <1>1
    <2>2. InBatch(i, a)
      BY <2>1 DEF RowsInv, BatchFull
    <2>3. CASE i = j
      BY <2>2, <2>3, MergeThings DEF RowsInv
    <2>4. CASE i # j
      BY <2>2, <2>4, MergeThings DEF RowsInv, InBatch
    <2> QED
      BY <2>3, <2>4
  <1> QED
    BY <1>3, <1>4

LEMMA DeleteRows ==
  ASSUME RowsInv, NEW j \in Job, Delete(j), TypeInv'
  PROVE  RowOrReason' /\ BatchFull'
  <1> DEFINE t == job[j].table
  <1>1. /\ \A i \in Job \ {j} : pc'[i] = pc[i]
        /\ pc[j] = "delete" /\ pc'[j] = "save"
        /\ job' = job /\ batch' = batch
    BY DEF Delete, Goto, RowsInv, TypeInv, TypeOK
  <1>2. \A u \in Table : SteadyIn(u)' = SteadyIn(u)
    BY SteadyKept DEF RowsInv, Next
  <1>3. /\ t \in Table
        /\ rows'[t] = {w \in rows[t] : w.thing[1] \notin job[j].owners}
        /\ lost'[t] = lost[t] \cup job[j].failed
        /\ \A u \in Table \ {t} : rows'[u] = rows[u] /\ lost'[u] = lost[u]
    BY DEF Delete, Doomed, RowsOf, RowsInv, TypeInv, TypeOK
  <1>4. RowOrReason'
    <2> SUFFICES ASSUME NEW u \in Table, NEW a \in SteadyIn(u)
                 PROVE  (HasRow(u, a) \/ a[1] \in lost[u] \/ \E i \in Job : ToSave(i, u, a))'
      BY <1>2 DEF RowOrReason
    <2>1. CASE u = t /\ a[1] \in job[j].owners
      <3>1. CASE a[1] \in job[j].failed
        BY <1>3, <2>1, <3>1
      <3>2. CASE a[1] \notin job[j].failed
        BY <1>1, <2>1, <3>2 DEF ToSave, Answering
      <3> QED
        BY <3>1, <3>2
    <2>2. CASE ~(u = t /\ a[1] \in job[j].owners)
      <3>1. HasRow(u, a) => HasRow(u, a)'
        BY <1>3, <2>2 DEF HasRow
      <3>2. \A i \in Job : ToSave(i, u, a) => ToSave(i, u, a)'
        BY <1>1 DEF ToSave, Answering
      <3>3. a[1] \in lost[u] => a[1] \in lost'[u]
        BY <1>3
      <3> QED
        BY <3>1, <3>2, <3>3 DEF RowsInv, RowOrReason
    <2> QED
      BY <2>1, <2>2
  <1>5. BatchFull'
    <2> SUFFICES ASSUME NEW i \in Job, pc'[i] \in {"merge", "delete", "save", "write"},
                        NEW a \in SteadyIn(job[i].table), Answering(i, a)
                 PROVE  InBatch(i, a)'
      BY <1>1, <1>2 DEF BatchFull, Answering, RowsInv, TypeInv, TypeOK
    <2>1. pc[i] \in {"merge", "delete", "save", "write"}
      BY <1>1
    <2> QED
      BY <1>1, <2>1 DEF InBatch, RowsInv, BatchFull
  <1> QED
    BY <1>4, <1>5

LEMMA LookRows ==
  ASSUME RowsInv, NEW j \in Job, Look(j), TypeInv'
  PROVE  RowOrReason' /\ BatchFull'
  <1>1. /\ pc[j] \in {"save", "add"}
        /\ pc'[j] = IF pc[j] = "save" THEN "write" ELSE "insert"
        /\ \A i \in Job \ {j} : pc'[i] = pc[i]
        /\ \A i \in Job : /\ job'[i].table = job[i].table
                          /\ job'[i].owners = job[i].owners
                          /\ job'[i].failed = job[i].failed
        /\ UNCHANGED <<rows, batch, lost>>
    BY LookFrame DEF RowsInv, history
  <1>2. \A u \in Table : SteadyIn(u)' = SteadyIn(u)
    BY SteadyKept DEF RowsInv, Next
  <1>3. \A i \in Job : pc'[i] \in {"save", "write"} <=> pc[i] \in {"save", "write"}
    BY <1>1
  <1>4. RowOrReason'
    <2> SUFFICES ASSUME NEW u \in Table, NEW a \in SteadyIn(u)
                 PROVE  (HasRow(u, a) \/ a[1] \in lost[u] \/ \E i \in Job : ToSave(i, u, a))'
      BY <1>2 DEF RowOrReason
    <2> QED
      BY <1>1, <1>3 DEF RowsInv, RowOrReason, HasRow, ToSave, Answering
  <1>5. BatchFull'
    <2> SUFFICES ASSUME NEW i \in Job, pc'[i] \in {"merge", "delete", "save", "write"},
                        NEW a \in SteadyIn(job[i].table), Answering(i, a)
                 PROVE  InBatch(i, a)'
      BY <1>1, <1>2 DEF BatchFull, Answering, RowsInv, TypeInv, TypeOK
    <2>1. pc[i] \in {"merge", "delete", "save", "write"}
      BY <1>1, <1>3
    <2> QED
      BY <1>1, <2>1 DEF InBatch, RowsInv, BatchFull
  <1> QED
    BY <1>4, <1>5

LEMMA SaveRows ==
  ASSUME RowsInv, NEW j \in Job, Save(j), TypeInv'
  PROVE  RowOrReason' /\ BatchFull'
  <1> DEFINE t == job[j].table
  <1>1. /\ \A i \in Job \ {j} : pc'[i] = pc[i] /\ job'[i] = job[i] /\ batch'[i] = batch[i]
        /\ pc'[j] = "idle"
    BY EndFrame DEF Save, RowsInv
  <1>2. \A u \in Table : SteadyIn(u)' = SteadyIn(u)
    BY SteadyKept DEF RowsInv, Next
  <1>3. /\ t \in Table
        /\ \A u \in Table \ {t} : rows'[u] = rows[u]
        /\ \A w \in rows[t] \cup batch[j] : w.thing[1] \in Struck(j) \/ w \in rows'[t]
    BY SaveFrame DEF RowsInv, TypeInv, TypeOK
  <1>4. /\ lost'[t] = (lost[t] \ (IF Deleted(j) THEN job[j].owners \ job[j].failed ELSE {}))
                        \cup Struck(j)
        /\ \A u \in Table \ {t} : lost'[u] = lost[u]
    BY SaveHistory DEF RowsInv
  <1> HIDE DEF t
  <1>5. RowOrReason'
    <2> SUFFICES ASSUME NEW u \in Table, NEW a \in SteadyIn(u)
                 PROVE  (HasRow(u, a) \/ a[1] \in lost[u] \/ \E i \in Job : ToSave(i, u, a))'
      BY <1>2 DEF RowOrReason
    <2>1. CASE u = t /\ a[1] \in Struck(j)
      BY <1>4, <2>1
    <2>2. CASE u = t /\ a[1] \notin Struck(j) /\ Deleted(j) /\ Answering(j, a)
      <3>1. InBatch(j, a)
        BY <2>2 DEF RowsInv, BatchFull, Deleted, t
      <3> QED
        BY <1>3, <2>2, <3>1 DEF InBatch, HasRow
    <2>3. CASE ~(u = t /\ a[1] \in Struck(j)) /\ ~(u = t /\ Deleted(j) /\ Answering(j, a))
      <3>1. HasRow(u, a) => HasRow(u, a)'
        BY <1>3, <2>3 DEF HasRow
      <3>2. \A i \in Job : ToSave(i, u, a) => ToSave(i, u, a)'
        BY <1>1, <2>3 DEF ToSave, Answering, Deleted, t
      <3>3. a[1] \in lost[u] => a[1] \in lost'[u]
        BY <1>4, <2>3 DEF Answering
      <3> QED
        BY <3>1, <3>2, <3>3 DEF RowsInv, RowOrReason
    <2> QED
      BY <2>1, <2>2, <2>3
  <1>6. BatchFull'
    <2> SUFFICES ASSUME NEW i \in Job, pc'[i] \in {"merge", "delete", "save", "write"},
                        NEW a \in SteadyIn(job'[i].table), Answering(i, a)'
                 PROVE  InBatch(i, a)'
      BY <1>2 DEF BatchFull, TypeInv, TypeOK
    <2>1. i # j
      BY <1>1
    <2> QED
      BY <1>1, <2>1 DEF RowsInv, BatchFull, Answering, InBatch
  <1> QED
    BY <1>5, <1>6

LEMMA RejectRows ==
  ASSUME RowsInv, NEW j \in Job, Reject(j), TypeInv'
  PROVE  RowOrReason' /\ BatchFull'
  <1> DEFINE t == job[j].table
  <1>1. /\ \A i \in Job \ {j} : pc'[i] = pc[i] /\ job'[i] = job[i] /\ batch'[i] = batch[i]
        /\ pc'[j] = "idle"
        /\ rows' = rows
    BY EndFrame DEF Reject, RowsInv
  <1>2. \A u \in Table : SteadyIn(u)' = SteadyIn(u)
    BY SteadyKept DEF RowsInv, Next
  <1>3. /\ t \in Table
        /\ lost'[t] = lost[t] \cup (IF pc[j] \in {"save", "write"} THEN job[j].owners ELSE {})
        /\ \A u \in Table \ {t} : lost'[u] = lost[u]
    BY DEF Reject, Deleted, RowsInv, TypeInv, TypeOK
  <1>4. RowOrReason'
    <2> SUFFICES ASSUME NEW u \in Table, NEW a \in SteadyIn(u)
                 PROVE  (HasRow(u, a) \/ a[1] \in lost[u] \/ \E i \in Job : ToSave(i, u, a))'
      BY <1>2 DEF RowOrReason
    <2>1. CASE ToSave(j, u, a)
      BY <1>3, <2>1 DEF ToSave, Answering
    <2>2. CASE ~ToSave(j, u, a)
      <3>1. HasRow(u, a) => HasRow(u, a)'
        BY <1>1 DEF HasRow
      <3>2. \A i \in Job : ToSave(i, u, a) => ToSave(i, u, a)'
        BY <1>1, <2>2 DEF ToSave, Answering
      <3>3. a[1] \in lost[u] => a[1] \in lost'[u]
        BY <1>3
      <3> QED
        BY <3>1, <3>2, <3>3 DEF RowsInv, RowOrReason
    <2> QED
      BY <2>1, <2>2
  <1>5. BatchFull'
    <2> SUFFICES ASSUME NEW i \in Job, pc'[i] \in {"merge", "delete", "save", "write"},
                        NEW a \in SteadyIn(job'[i].table), Answering(i, a)'
                 PROVE  InBatch(i, a)'
      BY <1>2 DEF BatchFull, TypeInv, TypeOK
    <2>1. i # j
      BY <1>1
    <2> QED
      BY <1>1, <2>1 DEF RowsInv, BatchFull, Answering, InBatch
  <1> QED
    BY <1>4, <1>5

LEMMA RestartRows ==
  ASSUME RowsInv, Restart, TypeInv'
  PROVE  RowOrReason' /\ BatchFull'
  <1>1. \A i \in Job : pc'[i] = "idle"
    BY EndFrame DEF Restart, RowsInv
  <1>2. \A u \in Table : SteadyIn(u)' = SteadyIn(u)
    BY SteadyKept DEF RowsInv, Next
  <1>3. /\ rows' = rows
        /\ \A u \in Table : lost'[u] = lost[u] \cup Window(u)
    BY DEF Restart
  <1>4. RowOrReason'
    <2> SUFFICES ASSUME NEW u \in Table, NEW a \in SteadyIn(u)
                 PROVE  (HasRow(u, a) \/ a[1] \in lost[u] \/ \E i \in Job : ToSave(i, u, a))'
      BY <1>2 DEF RowOrReason
    <2>1. HasRow(u, a) => HasRow(u, a)'
      BY <1>3 DEF HasRow
    <2>2. \A i \in Job : ToSave(i, u, a) => a[1] \in Window(u)
      BY DEF ToSave, Answering, Window, Deleted
    <2> QED
      BY <1>3, <2>1, <2>2 DEF RowsInv, RowOrReason
  <1> QED
    BY <1>1, <1>4 DEF BatchFull

LEMMA MoveRows ==
  ASSUME RowsInv, NEW b \in Asset, Move(b), TypeInv'
  PROVE  RowOrReason' /\ BatchFull'
  <1>1. \A u \in Table : SteadyIn(u)' = SteadyIn(u)
    BY SteadyKept DEF RowsInv, Next
  <1>2. UNCHANGED <<rows, pc, job, batch, lost>>
    BY DEF Move, jobs, history
  <1>3. RowOrReason'
    BY <1>1, <1>2 DEF RowsInv, RowOrReason, HasRow, ToSave, Answering
  <1>4. BatchFull'
    BY <1>1, <1>2 DEF RowsInv, TypeInv, TypeOK, BatchFull, Answering, InBatch
  <1> QED
    BY <1>3, <1>4

LEMMA InitRows == Init => RowsInv
  <1> SUFFICES ASSUME Init PROVE RowsInv
    OBVIOUS
  <1>1. RowOrReason
    <2> SUFFICES ASSUME NEW t \in Table, NEW a \in SteadyIn(t)
                 PROVE  HasRow(t, a)
      BY DEF RowOrReason
    <2>1. a \in UNION {Held(t, o) : o \in Owner}
      BY SteadyHeld
    <2>2. [id |-> <<0, a>>, thing |-> a, time |-> first[a]] \in rows[t]
      BY <2>1 DEF Init
    <2> QED
      BY <2>2 DEF HasRow
  <1>2. BatchFull
    BY DEF Init, BatchFull
  <1> QED
    BY <1>1, <1>2, InitTypeInv DEF RowsInv

LEMMA NextRows ==
  ASSUME RowsInv, [Next]_vars
  PROVE  RowsInv'
  <1>1. TypeInv'
    BY NextTypeInv DEF RowsInv
  <1>2. CASE UNCHANGED vars
    <2>1. \A t : SteadyIn(t)' = SteadyIn(t)
      BY <1>2 DEF vars, SteadyIn, Held, OpenPositions, OpenOrders
    <2>2. UNCHANGED <<rows, pc, job, batch, lost>>
      BY <1>2 DEF vars, jobs, history
    <2>3. RowOrReason' /\ BatchFull'
      BY <2>1, <2>2 DEF RowsInv, RowOrReason, BatchFull, HasRow, ToSave, Answering, InBatch
    <2> QED
      BY <1>1, <2>3 DEF RowsInv
  <1>3. CASE Next
    BY <1>1, <1>3, FetchRows, AddNewRows, MergeRows, DeleteRows, LookRows, SaveRows,
       RejectRows, RestartRows, MoveRows DEF Next, RowsInv
  <1> QED
    BY <1>2, <1>3

\* However refreshes overlap and fail, what stays open has a row, unless a refresh is
\* between its delete and its save, one was lost there or believed a failed answer, or
\* a save met rows of its millisecond.
THEOREM RowsKept == Spec => []RowsUnlessLost
  <1>1. RowsInv => RowsUnlessLost
    BY DEF RowsInv, RowOrReason, RowsUnlessLost, HasRow, ToSave, Answering, Window, Deleted
  <1> QED
    BY <1>1, InitRows, NextRows, PTL DEF Spec

-----------------------------------------------------------------------------
(***************************************************************************)
(* CleanTableIsLastAnswer.  Two refreshes of one owner at a time disturb   *)
(* him; so between the delete and the save of a refresh nobody else adds   *)
(* rows for an owner who is not disturbed, and the save alone decides      *)
(* which rows he has.                                                      *)
(***************************************************************************)
Active(j) == pc[j] # "idle"

OverlapDisturbs ==
  \A i, j \in Job :
    i # j /\ Active(i) /\ Active(j) /\ job[i].table = job[j].table =>
      job[i].owners \cap job[j].owners \subseteq disturbed[job[j].table]

BatchOwned == \A j \in Job : \A w \in batch[j] : w.thing[1] \in job[j].owners

AddDisturbs == \A j \in Job : pc[j] \in {"add", "insert"} => job[j].owners \subseteq disturbed[job[j].table]

BatchSingle == \A j \in Job : \A v, w \in batch[j] : v.thing = w.thing => v = w

SavesClean ==
  \A j \in Job : pc[j] \in {"save", "write"} =>
    \A w \in rows[job[j].table] :
      w.thing[1] \in job[j].owners => w.thing[1] \in disturbed[job[j].table]

OneAtATime == OverlapDisturbs /\ BatchOwned /\ AddDisturbs /\ BatchSingle /\ SavesClean

\* CleanTableIsLastAnswer for one owner.
Clean(t, o) ==
  /\ {w.thing : w \in RowsOf(t, {o})} = seen[t][o]
  /\ \A v, w \in RowsOf(t, {o}) : v.thing = w.thing => v = w

AllClean == \A t \in Table : \A o \in Owner : o \in disturbed[t] \cup Window(t) \/ Clean(t, o)

CleanInv == TypeInv /\ OneAtATime /\ AllClean

LEMMA WindowMember ==
  ASSUME NEW t, NEW o
  PROVE  o \in Window(t) <=> \E j \in Job : pc[j] \in {"save", "write"} /\ job[j].table = t /\ o \in job[j].owners
  BY DEF Window, Deleted

\* Nothing that Clean speaks of changes for the owner.
LEMMA CleanKept ==
  ASSUME CleanInv, NEW t \in Table, NEW o \in Owner,
         RowsOf(t, {o})' = RowsOf(t, {o}), seen'[t][o] = seen[t][o],
         disturbed[t] \subseteq disturbed'[t],
         o \in Window(t) => o \in disturbed'[t] \cup Window(t)'
  PROVE  (o \in disturbed[t] \cup Window(t) \/ Clean(t, o))'
  <1>1. o \in disturbed[t] \cup Window(t) \/ Clean(t, o)
    BY DEF CleanInv, AllClean
  <1>2. Clean(t, o)' <=> Clean(t, o)
    BY DEF Clean
  <1> QED
    BY <1>1, <1>2

LEMMA TouchGrows ==
  ASSUME TypeInv, NEW t, NEW S, Touch(t, S)
  PROVE  \A u \in Table : disturbed[u] \subseteq disturbed'[u]
  BY DEF Touch, TypeInv, TypeOK

LEMMA InitClean == Init => CleanInv
  <1> SUFFICES ASSUME Init PROVE CleanInv
    OBVIOUS
  <1>1. OneAtATime
    BY DEF Init, OneAtATime, OverlapDisturbs, BatchOwned, AddDisturbs, BatchSingle, SavesClean, Active
  <1>2. ASSUME NEW t \in Table, NEW o \in Owner PROVE Clean(t, o)
    <2>1. rows[t] = {[id |-> <<0, a>>, thing |-> a, time |-> first[a]] :
                      a \in UNION {Held(t, q) : q \in Owner}}
      BY DEF Init
    <2>2. \A w \in rows[t] : w = [id |-> <<0, w.thing>>, thing |-> w.thing, time |-> first[w.thing]]
      BY <2>1
    <2>3. \A w \in rows[t] : w.thing \in Held(t, w.thing[1])
      BY <2>1, HeldOwner
    <2>4. \A a \in Held(t, o) : a[1] = o /\ [id |-> <<0, a>>, thing |-> a, time |-> first[a]] \in rows[t]
      BY <2>1, HeldOwner
    <2>5. seen[t][o] = Held(t, o)
      BY DEF Init
    <2>6. {w.thing : w \in RowsOf(t, {o})} \subseteq Held(t, o)
      BY <2>3 DEF RowsOf
    <2>7. ASSUME NEW a \in Held(t, o) PROVE a \in {w.thing : w \in RowsOf(t, {o})}
      <3>1. [id |-> <<0, a>>, thing |-> a, time |-> first[a]] \in RowsOf(t, {o})
        BY <2>4 DEF RowsOf
      <3>2. [id |-> <<0, a>>, thing |-> a, time |-> first[a]].thing = a
        OBVIOUS
      <3> QED
        BY <3>1, <3>2
    <2>8. \A v, w \in RowsOf(t, {o}) : v.thing = w.thing => v = w
      BY <2>2 DEF RowsOf
    <2> QED
      BY <2>5, <2>6, <2>7, <2>8 DEF Clean
  <1> QED
    BY <1>1, <1>2, InitTypeInv DEF CleanInv, AllClean

LEMMA FetchClean ==
  ASSUME CleanInv, NEW j \in Job, Fetch(j), TypeInv'
  PROVE  CleanInv'
  <1> DEFINE t == job[j].table
  <1>1. PICK S \in SUBSET Owner : \E failed \in SUBSET S : \E things \in SUBSET Thing :
          Fetched(j, S, failed, things)
    BY FetchFetched DEF CleanInv
  <1>2. PICK failed \in SUBSET S : \E things \in SUBSET Thing :
          Fetched(j, S, failed, things)
    BY <1>1
  <1>3. PICK things \in SUBSET Thing : Fetched(j, S, failed, things)
    BY <1>2
  <1>4. Begun(j, S, failed, things)
    BY <1>3 DEF Fetched
  <1>5. /\ \A i \in Job \ {j} : job'[i] = job[i] /\ batch'[i] = batch[i]
        /\ job'[j] = [table |-> t, owners |-> S, failed |-> failed, found |-> {}]
        /\ \A a : (\E w \in batch'[j] : w.thing = a) <=> a \in things
        /\ \A v, w \in batch'[j] : v.thing = w.thing => v = w
    BY <1>4, BegunFrame DEF CleanInv
  <1>6. /\ \A i \in Job \ {j} : pc'[i] = pc[i]
        /\ pc[j] = "idle" /\ pc'[j] \in {"merge", "delete"}
        /\ rows' = rows /\ seen' = seen
    BY <1>3, <1>4 DEF Fetched, Begun, Goto, CleanInv, TypeInv, TypeOK
  <1>7. /\ t \in Table
        /\ disturbed'[t] = disturbed[t] \cup (IF Busy(t, S) = {} THEN failed
                         ELSE S \cup UNION {job[i].owners : i \in Busy(t, S)})
        /\ \A u \in Table \ {t} : disturbed'[u] = disturbed[u]
    BY <1>3 DEF Fetched, Touch, CleanInv, TypeInv, TypeOK
  <1>8. \A u \in Table : disturbed[u] \subseteq disturbed'[u]
    <2> DEFINE X == IF Busy(t, S) = {} THEN failed
                    ELSE S \cup UNION {job[i].owners : i \in Busy(t, S)}
    <2>1. Touch(t, X)
      BY <1>3 DEF Fetched
    <2> HIDE DEF X
    <2> QED
      BY <2>1, TouchGrows DEF CleanInv
  <1>9. \A i \in Job : job'[i].table = job[i].table /\ job[i].table \in Table
    <2>1. \A i \in Job : job[i].table \in Table
      BY DEF CleanInv, TypeInv, TypeOK
    <2>2. job'[j].table = t
      BY <1>5
    <2> QED
      BY <1>5, <2>1, <2>2
  <1>10. OverlapDisturbs'
    <2>1. ASSUME NEW i \in Job \ {j}, Active(i), job[i].table = t
          PROVE  job[i].owners \cap S \subseteq disturbed'[t]
      <3>1. CASE job[i].owners \cap S = {}
        BY <3>1
      <3>2. CASE job[i].owners \cap S # {}
        <4>1. i \in Busy(t, S)
          BY <2>1, <3>2 DEF Busy, Active
        <4> QED
          BY <1>7, <4>1
      <3> QED
        BY <3>1, <3>2
    <2> SUFFICES ASSUME NEW i \in Job, NEW k \in Job, i # k, Active(i)', Active(k)',
                        job'[i].table = job'[k].table
                 PROVE  job'[i].owners \cap job'[k].owners \subseteq disturbed'[job'[k].table]
      BY DEF OverlapDisturbs
    <2>2. CASE i = j
      BY <1>5, <1>6, <2>1, <2>2 DEF Active
    <2>3. CASE k = j
      BY <1>5, <1>6, <2>1, <2>3 DEF Active
    <2>4. CASE i # j /\ k # j
      BY <1>5, <1>6, <1>8, <1>9, <2>4 DEF CleanInv, OneAtATime, OverlapDisturbs, Active
    <2> QED
      BY <2>2, <2>3, <2>4
  <1>11. BatchOwned'
    <2>1. \A a \in things : a[1] \in S
      <3>1. SUFFICES ASSUME NEW a \in things PROVE a[1] \in S
        OBVIOUS
      <3>2. PICK o \in S : a \in Held(t, o)
        BY <1>3 DEF Fetched
      <3> HIDE DEF t
      <3> QED
        BY <1>7, <3>2, HeldOwner
    <2> QED
      BY <1>5, <2>1 DEF CleanInv, OneAtATime, BatchOwned
  <1>12. AddDisturbs'
    BY <1>5, <1>6, <1>8, <1>9 DEF CleanInv, OneAtATime, AddDisturbs
  <1>13. BatchSingle'
    BY <1>5 DEF CleanInv, OneAtATime, BatchSingle
  <1>14. SavesClean'
    BY <1>5, <1>6, <1>8, <1>9 DEF CleanInv, OneAtATime, SavesClean
  <1>15. AllClean'
    <2> SUFFICES ASSUME NEW u \in Table, NEW o \in Owner
                 PROVE  (o \in disturbed[u] \cup Window(u) \/ Clean(u, o))'
      BY DEF AllClean
    <2>1. o \in Window(u) => o \in Window(u)'
      BY <1>5, <1>6 DEF Window, Deleted
    <2> QED
      BY <1>6, <1>8, <2>1, CleanKept DEF RowsOf
  <1> QED
    BY <1>10, <1>11, <1>12, <1>13, <1>14, <1>15 DEF CleanInv, OneAtATime

LEMMA AddNewClean ==
  ASSUME CleanInv, NEW j \in Job, AddNew(j), TypeInv'
  PROVE  CleanInv'
  <1> DEFINE t == job[j].table
  <1>1. PICK o \in Owner : \E failed \in SUBSET {o} : \E things \in SUBSET Thing :
          Adding(j, o, failed, things)
    BY AddNewAdding DEF CleanInv
  <1>1a. PICK failed \in SUBSET {o} : \E things \in SUBSET Thing : Adding(j, o, failed, things)
    BY <1>1
  <1>1b. PICK things \in SUBSET Thing : Adding(j, o, failed, things)
    BY <1>1a
  <1>2. Begun(j, {o}, failed, things)
    BY <1>1b DEF Adding
  <1>3. \A a \in things : a[1] = o
    BY <1>1b DEF Adding
  <1>4. /\ \A i \in Job \ {j} : job'[i] = job[i] /\ batch'[i] = batch[i]
        /\ job'[j] = [table |-> t, owners |-> {o}, failed |-> failed, found |-> {}]
        /\ \A a : (\E w \in batch'[j] : w.thing = a) <=> a \in things
        /\ \A v, w \in batch'[j] : v.thing = w.thing => v = w
    BY <1>2, BegunFrame DEF CleanInv
  <1>5. /\ \A i \in Job \ {j} : pc'[i] = pc[i]
        /\ pc[j] = "idle" /\ pc'[j] = "add"
        /\ rows' = rows
    BY <1>1b DEF Adding, Begun, CleanInv, TypeInv, TypeOK
  <1>6. /\ t \in Table
        /\ disturbed'[t] = disturbed[t] \cup {o}
        /\ \A u \in Table \ {t} : disturbed'[u] = disturbed[u]
    BY <1>1b DEF Adding, CleanInv, TypeInv, TypeOK
  <1>7. \A u \in Table : disturbed[u] \subseteq disturbed'[u]
    BY <1>6
  <1>8. \A i \in Job : job'[i].table = job[i].table /\ job[i].table \in Table
    <2>1. \A i \in Job : job[i].table \in Table
      BY DEF CleanInv, TypeInv, TypeOK
    <2>2. job'[j].table = t
      BY <1>4
    <2> QED
      BY <1>4, <2>1, <2>2
  <1>9. o \in disturbed'[t] /\ job'[j].owners = {o}
    BY <1>4, <1>6
  <1>10. OverlapDisturbs'
    <2> SUFFICES ASSUME NEW i \in Job, NEW k \in Job, i # k, Active(i)', Active(k)',
                        job'[i].table = job'[k].table
                 PROVE  job'[i].owners \cap job'[k].owners \subseteq disturbed'[job'[k].table]
      BY DEF OverlapDisturbs
    <2>1. CASE i = j \/ k = j
      BY <1>4, <1>8, <1>9, <2>1
    <2>2. CASE i # j /\ k # j
      BY <1>4, <1>5, <1>7, <1>8, <2>2 DEF CleanInv, OneAtATime, OverlapDisturbs, Active
    <2> QED
      BY <2>1, <2>2
  <1>11. BatchOwned'
    BY <1>3, <1>4, <1>9 DEF CleanInv, OneAtATime, BatchOwned
  <1>12. AddDisturbs'
    BY <1>4, <1>5, <1>7, <1>8, <1>9 DEF CleanInv, OneAtATime, AddDisturbs
  <1>13. BatchSingle'
    BY <1>4 DEF CleanInv, OneAtATime, BatchSingle
  <1>14. SavesClean'
    BY <1>4, <1>5, <1>7, <1>8 DEF CleanInv, OneAtATime, SavesClean
  <1>15. AllClean'
    <2> SUFFICES ASSUME NEW u \in Table, NEW q \in Owner
                 PROVE  (q \in disturbed[u] \cup Window(u) \/ Clean(u, q))'
      BY DEF AllClean
    <2>1. q \in Window(u) => q \in Window(u)'
      BY <1>4, <1>5 DEF Window, Deleted
    <2>2. seen' = seen
      BY <1>1b DEF Adding
    <2> QED
      BY <1>5, <1>7, <2>1, <2>2, CleanKept DEF RowsOf
  <1> QED
    BY <1>10, <1>11, <1>12, <1>13, <1>14, <1>15 DEF CleanInv, OneAtATime

LEMMA MergeClean ==
  ASSUME CleanInv, NEW j \in Job, Merge(j), TypeInv'
  PROVE  CleanInv'
  <1>3. /\ \A v \in batch'[j] : \E w \in batch[j] : v.thing = w.thing
        /\ (\A v, w \in batch[j] : v.thing = w.thing => v = w)
             => \A v, w \in batch'[j] : v.thing = w.thing => v = w
        /\ \A i \in Job \ {j} : batch'[i] = batch[i]
    BY MergeThings DEF CleanInv
  <1>4. /\ \A i \in Job \ {j} : pc'[i] = pc[i]
        /\ pc[j] = "merge" /\ pc'[j] = "delete"
        /\ job' = job /\ rows' = rows /\ seen' = seen /\ disturbed' = disturbed
    BY DEF Merge, Goto, history, CleanInv, TypeInv, TypeOK
  <1>5. OverlapDisturbs'
    BY <1>4 DEF CleanInv, OneAtATime, OverlapDisturbs, Active
  <1>6. BatchOwned'
    BY <1>3, <1>4 DEF CleanInv, OneAtATime, BatchOwned
  <1>7. AddDisturbs'
    BY <1>4 DEF CleanInv, OneAtATime, AddDisturbs
  <1>8. BatchSingle'
    <2>1. \A v, w \in batch[j] : v.thing = w.thing => v = w
      BY DEF CleanInv, OneAtATime, BatchSingle
    <2> QED
      BY <1>3, <2>1 DEF CleanInv, OneAtATime, BatchSingle
  <1>9. SavesClean'
    BY <1>4 DEF CleanInv, OneAtATime, SavesClean
  <1>10. AllClean'
    <2> SUFFICES ASSUME NEW u \in Table, NEW q \in Owner
                 PROVE  (q \in disturbed[u] \cup Window(u) \/ Clean(u, q))'
      BY DEF AllClean
    <2>1. q \in Window(u) => q \in Window(u)'
      BY <1>4 DEF Window, Deleted
    <2> QED
      BY <1>4, <2>1, CleanKept DEF RowsOf
  <1> QED
    BY <1>5, <1>6, <1>7, <1>8, <1>9, <1>10 DEF CleanInv, OneAtATime

LEMMA DeleteClean ==
  ASSUME CleanInv, NEW j \in Job, Delete(j), TypeInv'
  PROVE  CleanInv'
  <1> DEFINE t == job[j].table
  <1>1. /\ \A i \in Job \ {j} : pc'[i] = pc[i]
        /\ pc[j] = "delete" /\ pc'[j] = "save"
        /\ job' = job /\ batch' = batch /\ seen' = seen /\ disturbed' = disturbed
    BY DEF Delete, Goto, CleanInv, TypeInv, TypeOK
  <1>2. /\ t \in Table
        /\ rows'[t] = {w \in rows[t] : w.thing[1] \notin job[j].owners}
        /\ \A u \in Table \ {t} : rows'[u] = rows[u]
    BY DEF Delete, Doomed, RowsOf, CleanInv, TypeInv, TypeOK
  <1>3. \A i \in Job : job[i].table \in Table
    BY DEF CleanInv, TypeInv, TypeOK
  <1>4. OverlapDisturbs'
    BY <1>1 DEF CleanInv, OneAtATime, OverlapDisturbs, Active
  <1>5. BatchOwned' /\ BatchSingle'
    BY <1>1 DEF CleanInv, OneAtATime, BatchOwned, BatchSingle
  <1>6. AddDisturbs'
    BY <1>1 DEF CleanInv, OneAtATime, AddDisturbs
  <1>7. SavesClean'
    <2> SUFFICES ASSUME NEW i \in Job, pc'[i] \in {"save", "write"}, NEW w \in rows'[job[i].table],
                        w.thing[1] \in job[i].owners
                 PROVE  w.thing[1] \in disturbed[job[i].table]
      BY <1>1 DEF SavesClean
    <2>1. i # j
      BY <1>2
    <2>2. w \in rows[job[i].table]
      BY <1>2, <1>3
    <2> QED
      BY <1>1, <2>1, <2>2 DEF CleanInv, OneAtATime, SavesClean
  <1>8. AllClean'
    <2> SUFFICES ASSUME NEW u \in Table, NEW q \in Owner
                 PROVE  (q \in disturbed[u] \cup Window(u) \/ Clean(u, q))'
      BY DEF AllClean
    <2>1. CASE u = t /\ q \in job[j].owners
      BY <1>1, <2>1 DEF Window, Deleted
    <2>2. CASE ~(u = t /\ q \in job[j].owners)
      <3>1. RowsOf(u, {q})' = RowsOf(u, {q})
        BY <1>2, <2>2 DEF RowsOf
      <3>2. q \in Window(u) => q \in Window(u)'
        BY <1>1 DEF Window, Deleted
      <3> QED
        BY <1>1, <3>1, <3>2, CleanKept
    <2> QED
      BY <2>1, <2>2
  <1> QED
    BY <1>4, <1>5, <1>6, <1>7, <1>8 DEF CleanInv, OneAtATime

LEMMA LookClean ==
  ASSUME CleanInv, NEW j \in Job, Look(j), TypeInv'
  PROVE  CleanInv'
  <1>1. /\ pc[j] \in {"save", "add"}
        /\ pc'[j] = IF pc[j] = "save" THEN "write" ELSE "insert"
        /\ \A i \in Job \ {j} : pc'[i] = pc[i]
        /\ \A i \in Job : /\ job'[i].table = job[i].table
                          /\ job'[i].owners = job[i].owners
        /\ UNCHANGED <<rows, batch, disturbed, seen>>
    BY LookFrame DEF CleanInv, history
  <1>2. \A i \in Job : /\ pc'[i] \in {"save", "write"} <=> pc[i] \in {"save", "write"}
                       /\ pc'[i] \in {"add", "insert"} <=> pc[i] \in {"add", "insert"}
                       /\ pc'[i] # "idle" <=> pc[i] # "idle"
    BY <1>1
  <1>3. OverlapDisturbs'
    BY <1>1, <1>2 DEF CleanInv, OneAtATime, OverlapDisturbs, Active
  <1>4. BatchOwned' /\ BatchSingle'
    BY <1>1 DEF CleanInv, OneAtATime, BatchOwned, BatchSingle
  <1>5. AddDisturbs'
    BY <1>1, <1>2 DEF CleanInv, OneAtATime, AddDisturbs
  <1>6. SavesClean'
    BY <1>1, <1>2 DEF CleanInv, OneAtATime, SavesClean
  <1>7. AllClean'
    <2> SUFFICES ASSUME NEW u \in Table, NEW q \in Owner
                 PROVE  (q \in disturbed[u] \cup Window(u) \/ Clean(u, q))'
      BY DEF AllClean
    <2>1. q \in Window(u) => q \in Window(u)'
      BY <1>1, <1>2 DEF Window, Deleted
    <2> QED
      BY <1>1, <2>1, CleanKept DEF RowsOf
  <1> QED
    BY <1>3, <1>4, <1>5, <1>6, <1>7 DEF CleanInv, OneAtATime

\* A refresh that ends leaves its owners out of what the others must reckon with.
LEMMA EndOneAtATime ==
  ASSUME CleanInv, NEW S \in SUBSET Job, End(S),
         \A u \in Table : disturbed[u] \subseteq disturbed'[u]
  PROVE  (OverlapDisturbs /\ BatchOwned /\ AddDisturbs /\ BatchSingle)'
  <1>1. /\ \A i \in Job \ S : pc'[i] = pc[i] /\ job'[i] = job[i] /\ batch'[i] = batch[i]
        /\ \A i \in S : pc'[i] = "idle" /\ batch'[i] = {}
    BY EndFrame DEF CleanInv
  <1>2. \A i \in Job : job[i].table \in Table
    BY DEF CleanInv, TypeInv, TypeOK
  <1>3. OverlapDisturbs'
    BY <1>1, <1>2 DEF CleanInv, OneAtATime, OverlapDisturbs, Active
  <1>4. BatchOwned' /\ BatchSingle'
    BY <1>1 DEF CleanInv, OneAtATime, BatchOwned, BatchSingle
  <1>5. AddDisturbs'
    BY <1>1, <1>2 DEF CleanInv, OneAtATime, AddDisturbs
  <1> QED
    BY <1>3, <1>4, <1>5

LEMMA RejectClean ==
  ASSUME CleanInv, NEW j \in Job, Reject(j), TypeInv'
  PROVE  CleanInv'
  <1> DEFINE t == job[j].table
             S == IF Deleted(j) THEN job[j].owners ELSE {}
  <1>1. /\ End({j}) /\ Touch(t, S)
        /\ rows' = rows /\ seen' = seen
    BY DEF Reject
  <1>2. /\ t \in Table
        /\ disturbed'[t] = disturbed[t] \cup S
    BY <1>1 DEF Touch, CleanInv, TypeInv, TypeOK
  <1>3. \A u \in Table : disturbed[u] \subseteq disturbed'[u]
    <2> HIDE DEF S
    <2> QED
      BY <1>1, TouchGrows DEF CleanInv
  <1>4. /\ \A i \in Job \ {j} : pc'[i] = pc[i] /\ job'[i] = job[i]
        /\ pc'[j] = "idle"
    BY <1>1, EndFrame DEF CleanInv
  <1>5. \A i \in Job : job[i].table \in Table
    BY DEF CleanInv, TypeInv, TypeOK
  <1>6. SavesClean'
    BY <1>1, <1>3, <1>4, <1>5 DEF CleanInv, OneAtATime, SavesClean
  <1>7. AllClean'
    <2> SUFFICES ASSUME NEW u \in Table, NEW q \in Owner
                 PROVE  (q \in disturbed[u] \cup Window(u) \/ Clean(u, q))'
      BY DEF AllClean
    <2>1. q \in Window(u) => q \in disturbed'[u] \cup Window(u)'
      <3> SUFFICES ASSUME NEW i \in Job, pc[i] \in {"save", "write"}, job[i].table = u, q \in job[i].owners
                   PROVE  q \in disturbed'[u] \cup Window(u)'
        BY DEF Window, Deleted
      <3>1. CASE i = j
        BY <1>2, <3>1 DEF Deleted
      <3>2. CASE i # j
        BY <1>4, <3>2 DEF Window, Deleted
      <3> QED
        BY <3>1, <3>2
    <2> QED
      BY <1>1, <1>3, <2>1, CleanKept DEF RowsOf
  <1>8. (OverlapDisturbs /\ BatchOwned /\ AddDisturbs /\ BatchSingle)'
    BY <1>1, <1>3, EndOneAtATime
  <1> QED
    BY <1>6, <1>7, <1>8 DEF CleanInv, OneAtATime

LEMMA RestartClean ==
  ASSUME CleanInv, Restart, TypeInv'
  PROVE  CleanInv'
  <1>1. /\ End(Job)
        /\ rows' = rows /\ seen' = seen
        /\ \A u \in Table : disturbed'[u] = disturbed[u] \cup Window(u)
    BY DEF Restart
  <1>2. \A i \in Job : pc'[i] = "idle"
    BY <1>1, EndFrame DEF CleanInv
  <1>3. SavesClean'
    BY <1>2 DEF SavesClean
  <1>4. AllClean'
    <2> SUFFICES ASSUME NEW u \in Table, NEW q \in Owner
                 PROVE  (q \in disturbed[u] \cup Window(u) \/ Clean(u, q))'
      BY DEF AllClean
    <2> QED
      BY <1>1, CleanKept DEF RowsOf
  <1>5. (OverlapDisturbs /\ BatchOwned /\ AddDisturbs /\ BatchSingle)'
    BY <1>1, EndOneAtATime
  <1> QED
    BY <1>3, <1>4, <1>5 DEF CleanInv, OneAtATime

LEMMA SaveClean ==
  ASSUME CleanInv, NEW j \in Job, Save(j), TypeInv'
  PROVE  CleanInv'
  <1> DEFINE t == job[j].table
  <1>1. /\ End({j})
        /\ pc[j] \in {"write", "insert"}
    BY DEF Save
  <1>2. /\ \A i \in Job \ {j} : pc'[i] = pc[i] /\ job'[i] = job[i]
        /\ pc'[j] = "idle"
    BY <1>1, EndFrame DEF CleanInv
  <1>3. /\ t \in Table
        /\ \A u \in Table \ {t} : rows'[u] = rows[u]
        /\ \A w \in rows[t] \cup batch[j] : w.thing[1] \in Struck(j) \/ w \in rows'[t]
        /\ \A w \in rows'[t] : w.thing[1] \in Struck(j) \/ w \in rows[t] \cup batch[j]
    BY SaveFrame DEF CleanInv, TypeInv, TypeOK
  <1>4. \A i \in Job : job[i].table \in Table
    BY DEF CleanInv, TypeInv, TypeOK
  <1>5. /\ \A w \in batch[j] : w.thing[1] \in job[j].owners
        /\ \A v, w \in batch[j] : v.thing = w.thing => v = w
    BY DEF CleanInv, OneAtATime, BatchOwned, BatchSingle
  <1>6. /\ \A q \in Owner : seen'[t][q] =
             IF Deleted(j) /\ q \in job[j].owners
             THEN {w.thing : w \in {v \in batch[j] : v.thing[1] = q}} ELSE seen[t][q]
        /\ \A u \in Table \ {t} : seen'[u] = seen[u]
    BY SaveSeen DEF CleanInv
  <1>7. /\ disturbed'[t] = disturbed[t] \cup Struck(j)
        /\ \A u \in Table \ {t} : disturbed'[u] = disturbed[u]
    BY SaveHistory DEF CleanInv
  <1>8. \A u \in Table : disturbed[u] \subseteq disturbed'[u]
    BY <1>7
  <1>9. (OverlapDisturbs /\ BatchOwned /\ AddDisturbs /\ BatchSingle)'
    BY <1>1, <1>8, EndOneAtATime
  <1>10. pc[j] \in {"save", "write"} <=> Deleted(j)
    BY DEF Deleted
  <1> HIDE DEF t
  <1>11. SavesClean'
    <2> SUFFICES ASSUME NEW i \in Job, pc'[i] \in {"save", "write"}, NEW w \in rows'[job'[i].table],
                        w.thing[1] \in job'[i].owners
                 PROVE  w.thing[1] \in disturbed'[job'[i].table]
      BY DEF SavesClean
    <2>1. i # j /\ pc[i] \in {"save", "write"} /\ job'[i] = job[i] /\ job[i].table \in Table
      BY <1>2, <1>4
    <2>2. CASE w \in rows[job[i].table]
      BY <1>8, <2>1, <2>2 DEF CleanInv, OneAtATime, SavesClean
    <2>3. CASE w \notin rows[job[i].table] /\ w.thing[1] \in Struck(j)
      BY <1>3, <1>7, <2>1, <2>3
    <2>4. CASE w \notin rows[job[i].table] /\ w.thing[1] \notin Struck(j)
      <3>1. job[i].table = t /\ w \in batch[j]
        BY <1>3, <2>1, <2>4
      <3>2. w.thing[1] \in job[i].owners \cap job[j].owners
        BY <1>5, <2>1, <3>1
      <3>3. Active(i) /\ Active(j)
        BY <1>1, <2>1 DEF Active
      <3>4. w.thing[1] \in disturbed[t]
        BY <2>1, <3>1, <3>2, <3>3 DEF CleanInv, OneAtATime, OverlapDisturbs, t
      <3> QED
        BY <1>3, <1>8, <2>1, <3>1, <3>4
    <2> QED
      BY <2>2, <2>3, <2>4
  <1>12. AllClean'
    <2> SUFFICES ASSUME NEW u \in Table, NEW q \in Owner, q \notin disturbed'[u]
                 PROVE  (q \in disturbed[u] \cup Window(u) \/ Clean(u, q))'
      BY DEF AllClean
    <2>1. CASE ~(u = t /\ q \in job[j].owners)
      <3>1. RowsOf(u, {q})' = RowsOf(u, {q})
        <4>1. CASE u # t
          BY <1>3, <4>1 DEF RowsOf
        <4>2. CASE u = t
          <5>1. q \notin Struck(j) /\ q \notin job[j].owners
            BY <1>7, <2>1, <4>2
          <5>2. \A w : w \in rows'[t] /\ w.thing[1] = q <=> w \in rows[t] /\ w.thing[1] = q
            BY <1>3, <1>5, <5>1
          <5> QED
            BY <4>2, <5>2 DEF RowsOf
        <4> QED
          BY <4>1, <4>2
      <3>2. q \in Window(u) => q \in Window(u)'
        BY <1>2, <2>1 DEF Window, Deleted, t
      <3>3. seen'[u][q] = seen[u][q]
        BY <1>6, <2>1
      <3> QED
        BY <1>8, <3>1, <3>2, <3>3, CleanKept
    <2>2. CASE u = t /\ q \in job[j].owners /\ pc[j] = "insert"
      <3>1. q \in disturbed[t]
        BY <2>2 DEF CleanInv, OneAtATime, AddDisturbs, t
      <3> QED
        BY <1>8, <2>2, <3>1
    <2>3. CASE u = t /\ q \in job[j].owners /\ pc[j] = "write"
      <3>1. RowsOf(u, {q})' = {v \in batch[j] : v.thing[1] = q}
        <4>1. q \notin disturbed[t] /\ q \notin Struck(j)
          BY <1>7, <2>3
        <4>2. \A w \in rows[t] : w.thing[1] # q
          BY <2>3, <4>1 DEF CleanInv, OneAtATime, SavesClean, t
        <4>3. \A w : w \in rows'[t] /\ w.thing[1] = q <=> w \in batch[j] /\ w.thing[1] = q
          BY <1>3, <4>1, <4>2
        <4>4. RowsOf(u, {q})' = {w \in rows'[u] : w.thing[1] = q}
          BY DEF RowsOf
        <4> QED
          BY <2>3, <4>3, <4>4
      <3>2. Clean(u, q)'
        BY <1>5, <1>6, <1>10, <2>3, <3>1 DEF Clean
      <3> QED
        BY <3>2
    <2> QED
      BY <1>1, <2>1, <2>2, <2>3
  <1> QED
    BY <1>9, <1>11, <1>12 DEF CleanInv, OneAtATime

LEMMA SameClean ==
  ASSUME CleanInv, TypeInv', UNCHANGED <<rows, pc, job, batch, disturbed, seen>>
  PROVE  CleanInv'
  <1>1. OneAtATime'
    BY DEF CleanInv, OneAtATime, OverlapDisturbs, BatchOwned, AddDisturbs, BatchSingle, SavesClean, Active
  <1>2. AllClean'
    BY DEF CleanInv, AllClean, Clean, RowsOf, Window, Deleted
  <1> QED
    BY <1>1, <1>2 DEF CleanInv

LEMMA NextClean ==
  ASSUME CleanInv, [Next]_vars
  PROVE  CleanInv'
  <1>1. TypeInv'
    BY NextTypeInv DEF CleanInv
  <1>2. CASE UNCHANGED vars
    BY <1>1, <1>2, SameClean DEF vars, jobs, history
  <1>3. ASSUME NEW a \in Asset, Move(a) PROVE CleanInv'
    BY <1>1, <1>3, SameClean DEF Move, jobs, history
  <1> QED
    BY <1>1, <1>2, <1>3, FetchClean, AddNewClean, MergeClean, DeleteClean, LookClean,
       SaveClean, RejectClean, RestartClean DEF Next

\* Refreshes that come one at a time and succeed make the table what the last of
\* them fetched, one row for each thing, whatever happens to the other owners, unless
\* a save met a row of its millisecond.
THEOREM CleanTables == Spec => []CleanTableIsLastAnswer
  <1>1. CleanInv => CleanTableIsLastAnswer
    BY DEF CleanInv, AllClean, Clean, CleanTableIsLastAnswer
  <1> QED
    BY <1>1, InitClean, NextClean, PTL DEF Spec

-----------------------------------------------------------------------------
(***************************************************************************)
(* FirstSeenKept.  When a refresh merges, a position that stays open has   *)
(* its row (RowOrReason): its owner is not lost, and no other refresh is   *)
(* about to save it, for both would disturb him.                           *)
(***************************************************************************)
FailedDisturbed == \A j \in Job : job[j].failed \subseteq disturbed[job[j].table]

LostDisturbed == \A t \in Table : lost[t] \subseteq disturbed[t]

\* The row of a position that stays open, of an owner who is not disturbed.
Kept(w) == w.thing \in Steady /\ w.thing[1] \notin disturbed["positions"]

RowsFirst == "positions" \in Table => \A w \in rows["positions"] : Kept(w) => w.time = first[w.thing]

BatchFirst ==
  \A j \in Job : job[j].table = "positions" /\ pc[j] \in {"delete", "save", "write", "add", "insert"} =>
    \A w \in batch[j] : Kept(w) => w.time = first[w.thing]

BatchSteady ==
  \A j \in Job : pc[j] = "merge" =>
    \A w \in batch[j] : w.thing \in Steady => w.thing \in SteadyIn("positions")

Excused == FailedDisturbed /\ LostDisturbed

Firsts == RowsFirst /\ BatchFirst /\ BatchSteady

FirstInv == RowsInv /\ CleanInv /\ Excused /\ Firsts

LEMMA InitFirst == Init => FirstInv
  <1> SUFFICES ASSUME Init PROVE FirstInv
    OBVIOUS
  <1>1. Excused
    BY DEF Init, Fresh, Excused, FailedDisturbed, LostDisturbed
  <1>2. RowsFirst
    BY DEF Init, RowsFirst
  <1>3. BatchFirst /\ BatchSteady
    BY DEF Init, BatchFirst, BatchSteady
  <1> QED
    BY <1>1, <1>2, <1>3, InitRows, InitClean DEF FirstInv, Firsts

LEMMA FetchFirst ==
  ASSUME FirstInv, NEW j \in Job, Fetch(j), TypeInv'
  PROVE  Excused' /\ Firsts'
  <1> DEFINE t == job[j].table
  <1>1. PICK S \in SUBSET Owner : \E failed \in SUBSET S : \E things \in SUBSET Thing :
          Fetched(j, S, failed, things)
    BY FetchFetched DEF FirstInv, CleanInv
  <1>2. PICK failed \in SUBSET S : \E things \in SUBSET Thing :
          Fetched(j, S, failed, things)
    BY <1>1
  <1>3. PICK things \in SUBSET Thing : Fetched(j, S, failed, things)
    BY <1>2
  <1>4. Begun(j, S, failed, things)
    BY <1>3 DEF Fetched
  <1>5. /\ \A i \in Job \ {j} : job'[i] = job[i] /\ batch'[i] = batch[i]
        /\ job'[j] = [table |-> t, owners |-> S, failed |-> failed, found |-> {}]
        /\ \A a : (\E w \in batch'[j] : w.thing = a) <=> a \in things
        /\ \A v, w \in batch'[j] : v.thing = w.thing => v = w
    BY <1>4, BegunFrame DEF FirstInv, CleanInv
  <1>6. /\ \A i \in Job \ {j} : pc'[i] = pc[i]
        /\ pc'[j] = (IF t = "positions" THEN "merge" ELSE "delete")
        /\ rows' = rows /\ lost' = lost /\ first' = first
    BY <1>3, <1>4 DEF Fetched, Begun, Goto, FirstInv, CleanInv, TypeInv, TypeOK
  <1> DEFINE X == IF Busy(t, S) = {} THEN failed
                  ELSE S \cup UNION {job[i].owners : i \in Busy(t, S)}
  <1>7. failed \subseteq X
    OBVIOUS
  <1>8. Touch(t, X)
    BY <1>3 DEF Fetched
  <1> HIDE DEF X
  <1>9. \A u \in Table : disturbed[u] \subseteq disturbed'[u]
    BY <1>8, TouchGrows DEF FirstInv, CleanInv
  <1>10. \A i \in Job : job[i].table \in Table
    BY DEF FirstInv, CleanInv, TypeInv, TypeOK
  <1>11. failed \subseteq disturbed'[t]
    BY <1>7, <1>8, <1>10 DEF Touch, FirstInv, CleanInv, TypeInv, TypeOK
  <1>12. FailedDisturbed'
    <2> SUFFICES ASSUME NEW i \in Job PROVE job'[i].failed \subseteq disturbed'[job'[i].table]
      BY DEF FailedDisturbed
    <2>1. CASE i = j
      BY <1>5, <1>11, <2>1
    <2>2. CASE i # j
      BY <1>5, <1>9, <1>10, <2>2 DEF FirstInv, Excused, FailedDisturbed
    <2> QED
      BY <2>1, <2>2
  <1>13. LostDisturbed'
    BY <1>6, <1>9 DEF FirstInv, Excused, LostDisturbed
  <1>14. \A w : Kept(w)' /\ "positions" \in Table => Kept(w)
    BY <1>9 DEF Kept
  <1>15. RowsFirst'
    BY <1>6, <1>14 DEF FirstInv, Firsts, RowsFirst
  <1>16. BatchFirst'
    <2> SUFFICES ASSUME NEW i \in Job, job'[i].table = "positions",
                        pc'[i] \in {"delete", "save", "write", "add", "insert"}, NEW w \in batch'[i], Kept(w)'
                 PROVE  w.time = first'[w.thing]
      BY DEF BatchFirst
    <2>1. i # j
      BY <1>5, <1>6
    <2>2. Kept(w)
      BY <1>5, <1>10, <1>14, <2>1
    <2> QED
      BY <1>5, <1>6, <2>1, <2>2 DEF FirstInv, Firsts, BatchFirst
  <1>17. BatchSteady'
    <2>1. \A u \in Table : SteadyIn(u)' = SteadyIn(u)
      BY SteadyKept DEF FirstInv, CleanInv, Next
    <2> SUFFICES ASSUME NEW i \in Job, pc'[i] = "merge", NEW w \in batch'[i], w.thing \in Steady
                 PROVE  w.thing \in SteadyIn("positions")'
      BY DEF BatchSteady
    <2>2. "positions" \in Table
      BY DEF TypeInv, TypeOK, MergesPositions
    <2>3. CASE i = j
      <3>1. t = "positions"
        BY <1>6, <2>3
      <3>2. w.thing \in things
        BY <1>5, <2>3
      <3>3. PICK o \in S : w.thing \in Held("positions", o)
        BY <1>3, <3>1, <3>2 DEF Fetched
      <3>4. w.thing[1] = o
        BY <2>2, <3>3, HeldOwner
      <3> QED
        BY <2>1, <2>2, <3>3, <3>4 DEF SteadyIn
    <2>4. CASE i # j
      BY <1>5, <1>6, <2>1, <2>2, <2>4 DEF FirstInv, Firsts, BatchSteady
    <2> QED
      BY <2>3, <2>4
  <1> QED
    BY <1>12, <1>13, <1>15, <1>16, <1>17 DEF Excused, Firsts

LEMMA AddNewFirst ==
  ASSUME FirstInv, NEW j \in Job, AddNew(j), TypeInv'
  PROVE  Excused' /\ Firsts'
  <1> DEFINE t == job[j].table
  <1>1. PICK o \in Owner : \E failed \in SUBSET {o} : \E things \in SUBSET Thing :
          Adding(j, o, failed, things)
    BY AddNewAdding DEF FirstInv, CleanInv
  <1>1a. PICK failed \in SUBSET {o} : \E things \in SUBSET Thing : Adding(j, o, failed, things)
    BY <1>1
  <1>1b. PICK things \in SUBSET Thing : Adding(j, o, failed, things)
    BY <1>1a
  <1>2. /\ \A i \in Job \ {j} : job'[i] = job[i] /\ batch'[i] = batch[i]
        /\ job'[j] = [table |-> t, owners |-> {o}, failed |-> failed, found |-> {}]
    BY <1>1b DEF Adding, Begun, FirstInv, CleanInv, TypeInv, TypeOK
  <1>3. /\ \A i \in Job \ {j} : pc'[i] = pc[i]
        /\ pc'[j] = "add"
        /\ rows' = rows /\ lost' = lost /\ first' = first
    BY <1>1b DEF Adding, FirstInv, CleanInv, TypeInv, TypeOK
  <1>4. \A u \in Table : disturbed[u] \subseteq disturbed'[u]
    BY <1>1b DEF Adding, FirstInv, CleanInv, TypeInv, TypeOK
  <1>5. \A i \in Job : job[i].table \in Table
    BY DEF FirstInv, CleanInv, TypeInv, TypeOK
  <1>6. \A u \in Table : SteadyIn(u)' = SteadyIn(u)
    BY SteadyKept DEF FirstInv, CleanInv, Next
  <1>7. CleanInv'
    BY AddNewClean DEF FirstInv
  <1>8. FailedDisturbed'
    <2>1. failed \subseteq disturbed'[t]
      BY <1>1b, <1>5 DEF Adding, FirstInv, CleanInv, TypeInv, TypeOK
    <2> SUFFICES ASSUME NEW i \in Job PROVE job'[i].failed \subseteq disturbed'[job'[i].table]
      BY DEF FailedDisturbed
    <2>2. CASE i = j
      BY <1>2, <2>1, <2>2
    <2>3. CASE i # j
      BY <1>2, <1>4, <1>5, <2>3 DEF FirstInv, Excused, FailedDisturbed
    <2> QED
      BY <2>2, <2>3
  <1>9. LostDisturbed'
    BY <1>3, <1>4 DEF FirstInv, Excused, LostDisturbed
  <1>10. \A w : Kept(w)' /\ "positions" \in Table => Kept(w)
    BY <1>4 DEF Kept
  <1>11. RowsFirst'
    BY <1>3, <1>10 DEF FirstInv, Firsts, RowsFirst
  <1>12. BatchFirst'
    <2> SUFFICES ASSUME NEW i \in Job, job'[i].table = "positions",
                        pc'[i] \in {"delete", "save", "write", "add", "insert"}, NEW w \in batch'[i], Kept(w)'
                 PROVE  w.time = first'[w.thing]
      BY DEF BatchFirst
    <2>1. CASE i = j
      <3>1. w.thing[1] \in disturbed'["positions"]
        BY <1>3, <1>7, <2>1 DEF CleanInv, OneAtATime, AddDisturbs, BatchOwned
      <3> QED
        BY <3>1 DEF Kept
    <2>2. CASE i # j
      <3>1. Kept(w)
        BY <1>2, <1>5, <1>10, <2>2
      <3> QED
        BY <1>2, <1>3, <2>2, <3>1 DEF FirstInv, Firsts, BatchFirst
    <2> QED
      BY <2>1, <2>2
  <1>13. BatchSteady'
    <2> SUFFICES ASSUME NEW i \in Job, pc'[i] = "merge", NEW w \in batch'[i], w.thing \in Steady
                 PROVE  w.thing \in SteadyIn("positions")'
      BY DEF BatchSteady
    <2>1. "positions" \in Table
      BY DEF TypeInv, TypeOK, MergesPositions
    <2> QED
      BY <1>2, <1>3, <1>6, <2>1 DEF FirstInv, Firsts, BatchSteady
  <1> QED
    BY <1>8, <1>9, <1>11, <1>12, <1>13 DEF Excused, Firsts

LEMMA MergeFirst ==
  ASSUME FirstInv, NEW j \in Job, Merge(j), TypeInv'
  PROVE  Excused' /\ Firsts'
  <1>1. PICK old \in [batch[j] -> rows["positions"] \cup batch[j]] :
          /\ \A w \in batch[j] : old[w] \in Old(w)
          /\ batch' = [batch EXCEPT ![j] = {[w EXCEPT !.time = old[w].time] : w \in batch[j]}]
    BY DEF Merge
  <1>2. /\ batch'[j] = {[w EXCEPT !.time = old[w].time] : w \in batch[j]}
        /\ \A i \in Job \ {j} : batch'[i] = batch[i]
    BY <1>1 DEF FirstInv, CleanInv, TypeInv, TypeOK
  <1>3. /\ \A i \in Job \ {j} : pc'[i] = pc[i]
        /\ pc[j] = "merge" /\ pc'[j] = "delete"
        /\ job' = job /\ rows' = rows /\ lost' = lost /\ disturbed' = disturbed
        /\ first' = first
    BY DEF Merge, Goto, history, FirstInv, CleanInv, TypeInv, TypeOK
  <1>4. \A u \in Table : SteadyIn(u)' = SteadyIn(u)
    BY SteadyKept DEF FirstInv, CleanInv, Next
  <1>5. job[j].table = "positions" /\ "positions" \in Table
    BY <1>3 DEF FirstInv, CleanInv, TypeInv, TypeOK, MergesPositions
  <1>6. ASSUME NEW w \in batch[j], Kept(w) PROVE HasRow("positions", w.thing)
    <2>1. w.thing \in SteadyIn("positions")
      BY <1>3, <1>6 DEF FirstInv, Firsts, BatchSteady, Kept
    <2>2. w.thing[1] \notin lost["positions"]
      BY <1>5, <1>6 DEF FirstInv, Excused, LostDisturbed, Kept
    <2>3. ASSUME NEW i \in Job, ToSave(i, "positions", w.thing) PROVE FALSE
      <3>1. i # j /\ Active(i) /\ Active(j) /\ job[i].table = job[j].table
        BY <1>3, <1>5, <2>3 DEF ToSave, Active
      <3>2. w.thing[1] \in job[i].owners \cap job[j].owners
        BY <2>3 DEF ToSave, Answering, FirstInv, CleanInv, OneAtATime, BatchOwned
      <3>3. w.thing[1] \in disturbed["positions"]
        BY <1>5, <3>1, <3>2 DEF FirstInv, CleanInv, OneAtATime, OverlapDisturbs
      <3> QED
        BY <1>6, <3>3 DEF Kept
    <2> QED
      BY <1>5, <2>1, <2>2, <2>3 DEF FirstInv, RowsInv, RowOrReason
  <1>7. \A w \in batch[j] : Kept(w) => old[w] \in rows["positions"] /\ old[w].thing = w.thing
    BY <1>1, <1>6 DEF Old, HasRow
  <1>8. ASSUME NEW w \in batch[j]
        PROVE  /\ [w EXCEPT !.time = old[w].time].thing = w.thing
               /\ [w EXCEPT !.time = old[w].time].time = old[w].time
    <2>1. w \in Row
      BY DEF FirstInv, CleanInv, TypeInv, TypeOK
    <2> QED
      BY <2>1 DEF Row
  <1>9. \A v \in batch'[j] : Kept(v) => v.time = first[v.thing]
    <2> SUFFICES ASSUME NEW v \in batch'[j], Kept(v) PROVE v.time = first[v.thing]
      OBVIOUS
    <2>1. PICK w \in batch[j] : v = [w EXCEPT !.time = old[w].time]
      BY <1>2
    <2>2. v.thing = w.thing /\ v.time = old[w].time
      BY <1>8, <2>1
    <2>3. Kept(w)
      BY <2>2 DEF Kept
    <2>4. old[w] \in rows["positions"] /\ old[w].thing = w.thing /\ Kept(old[w])
      BY <1>7, <2>3 DEF Kept
    <2> QED
      BY <1>5, <2>2, <2>4 DEF FirstInv, Firsts, RowsFirst
  <1>10. Excused'
    BY <1>3 DEF FirstInv, Excused, FailedDisturbed, LostDisturbed
  <1>11. RowsFirst'
    BY <1>3 DEF FirstInv, Firsts, RowsFirst, Kept
  <1>12. BatchFirst'
    BY <1>2, <1>3, <1>9 DEF FirstInv, Firsts, BatchFirst, Kept
  <1>13. BatchSteady'
    <2>1. \A v \in batch'[j] : \E w \in batch[j] : v.thing = w.thing
      BY MergeThings DEF FirstInv, CleanInv
    <2> QED
      BY <1>2, <1>3, <1>4, <1>5, <2>1 DEF FirstInv, Firsts, BatchSteady
  <1> QED
    BY <1>10, <1>11, <1>12, <1>13 DEF Excused, Firsts

LEMMA DeleteFirst ==
  ASSUME FirstInv, NEW j \in Job, Delete(j), TypeInv'
  PROVE  Excused' /\ Firsts'
  <1> DEFINE t == job[j].table
  <1>1. /\ \A i \in Job \ {j} : pc'[i] = pc[i]
        /\ pc[j] = "delete" /\ pc'[j] = "save"
        /\ job' = job /\ batch' = batch /\ disturbed' = disturbed /\ first' = first
    BY DEF Delete, Goto, FirstInv, CleanInv, TypeInv, TypeOK
  <1>2. /\ \A u \in Table : rows'[u] \subseteq rows[u]
        /\ lost'[t] = lost[t] \cup job[j].failed
        /\ \A u \in Table \ {t} : lost'[u] = lost[u]
    BY DEF Delete, FirstInv, CleanInv, TypeInv, TypeOK
  <1>3. \A u \in Table : SteadyIn(u)' = SteadyIn(u)
    BY SteadyKept DEF FirstInv, CleanInv, Next
  <1>4. FailedDisturbed'
    BY <1>1 DEF FirstInv, Excused, FailedDisturbed
  <1>5. LostDisturbed'
    BY <1>1, <1>2 DEF FirstInv, Excused, FailedDisturbed, LostDisturbed
  <1>6. RowsFirst'
    BY <1>1, <1>2 DEF FirstInv, Firsts, RowsFirst, Kept
  <1>7. BatchFirst'
    BY <1>1 DEF FirstInv, Firsts, BatchFirst, Kept
  <1>8. BatchSteady'
    <2> SUFFICES ASSUME NEW i \in Job, pc'[i] = "merge", NEW w \in batch'[i], w.thing \in Steady
                 PROVE  w.thing \in SteadyIn("positions")'
      BY DEF BatchSteady
    <2>1. "positions" \in Table
      BY DEF TypeInv, TypeOK, MergesPositions
    <2> QED
      BY <1>1, <1>3, <2>1 DEF FirstInv, Firsts, BatchSteady
  <1> QED
    BY <1>4, <1>5, <1>6, <1>7, <1>8 DEF Excused, Firsts

LEMMA LookFirst ==
  ASSUME FirstInv, NEW j \in Job, Look(j), TypeInv'
  PROVE  Excused' /\ Firsts'
  <1>1. /\ pc[j] \in {"save", "add"}
        /\ pc'[j] = IF pc[j] = "save" THEN "write" ELSE "insert"
        /\ \A i \in Job \ {j} : pc'[i] = pc[i]
        /\ \A i \in Job : /\ job'[i].table = job[i].table
                          /\ job'[i].failed = job[i].failed
        /\ UNCHANGED <<rows, batch, disturbed, lost, first>>
    BY LookFrame DEF FirstInv, CleanInv, history
  <1>2. \A u \in Table : SteadyIn(u)' = SteadyIn(u)
    BY SteadyKept DEF FirstInv, CleanInv, Next
  <1>3. Excused'
    BY <1>1 DEF FirstInv, Excused, FailedDisturbed, LostDisturbed
  <1>4. RowsFirst' /\ BatchFirst'
    BY <1>1 DEF FirstInv, Firsts, RowsFirst, BatchFirst, Kept
  <1>5. BatchSteady'
    <2> SUFFICES ASSUME NEW i \in Job, pc'[i] = "merge", NEW w \in batch'[i], w.thing \in Steady
                 PROVE  w.thing \in SteadyIn("positions")'
      BY DEF BatchSteady
    <2>1. "positions" \in Table
      BY DEF TypeInv, TypeOK, MergesPositions
    <2> QED
      BY <1>1, <1>2, <2>1 DEF FirstInv, Firsts, BatchSteady
  <1> QED
    BY <1>3, <1>4, <1>5 DEF Firsts

\* A refresh that ends, whether it saved or not.
LEMMA EndFirst ==
  ASSUME FirstInv, NEW S \in SUBSET Job, End(S), Next, TypeInv', first' = first,
         \A u \in Table : disturbed[u] \subseteq disturbed'[u]
  PROVE  FailedDisturbed' /\ BatchFirst' /\ BatchSteady'
  <1>1. /\ \A i \in Job \ S : pc'[i] = pc[i] /\ job'[i] = job[i] /\ batch'[i] = batch[i]
        /\ \A i \in S : /\ pc'[i] = "idle" /\ batch'[i] = {}
                        /\ job'[i] = [table |-> job[i].table, owners |-> {}, failed |-> {},
                                     found |-> {}]
    BY EndFrame DEF FirstInv, CleanInv
  <1>2. \A i \in Job : job[i].table \in Table
    BY DEF FirstInv, CleanInv, TypeInv, TypeOK
  <1>3. \A u \in Table : SteadyIn(u)' = SteadyIn(u)
    BY SteadyKept DEF FirstInv, CleanInv
  <1>4. FailedDisturbed'
    <2> SUFFICES ASSUME NEW i \in Job PROVE job'[i].failed \subseteq disturbed'[job'[i].table]
      BY DEF FailedDisturbed
    <2>1. CASE i \in S
      <3>1. job'[i] = [table |-> job[i].table, owners |-> {}, failed |-> {},
                                     found |-> {}]
        BY <1>1, <2>1
      <3>2. job'[i].failed = {}
        BY <3>1
      <3> QED
        BY <3>2
    <2>2. CASE i \notin S
      BY <1>1, <1>2, <2>2 DEF FirstInv, Excused, FailedDisturbed
    <2> QED
      BY <2>1, <2>2
  <1>5. BatchFirst'
    <2> SUFFICES ASSUME NEW i \in Job, job'[i].table = "positions",
                        pc'[i] \in {"delete", "save", "write", "add", "insert"}, NEW w \in batch'[i], Kept(w)'
                 PROVE  w.time = first'[w.thing]
      BY DEF BatchFirst
    <2>1. i \notin S
      BY <1>1
    <2>2. Kept(w)
      BY <1>1, <1>2, <2>1 DEF Kept
    <2> QED
      BY <1>1, <2>1, <2>2 DEF FirstInv, Firsts, BatchFirst
  <1>6. BatchSteady'
    <2> SUFFICES ASSUME NEW i \in Job, pc'[i] = "merge", NEW w \in batch'[i], w.thing \in Steady
                 PROVE  w.thing \in SteadyIn("positions")'
      BY DEF BatchSteady
    <2>1. "positions" \in Table
      BY DEF TypeInv, TypeOK, MergesPositions
    <2>2. i \notin S
      BY <1>1
    <2> QED
      BY <1>1, <1>3, <2>1, <2>2 DEF FirstInv, Firsts, BatchSteady
  <1> QED
    BY <1>4, <1>5, <1>6

LEMMA SaveFirst ==
  ASSUME FirstInv, NEW j \in Job, Save(j), TypeInv'
  PROVE  Excused' /\ Firsts'
  <1> DEFINE t == job[j].table
  <1>1. /\ End({j}) /\ first' = first
        /\ pc[j] \in {"write", "insert"}
    BY DEF Save
  <1>2. /\ disturbed'[t] = disturbed[t] \cup Struck(j)
        /\ lost'[t] \subseteq lost[t] \cup Struck(j)
        /\ \A u \in Table \ {t} : disturbed'[u] = disturbed[u] /\ lost'[u] = lost[u]
    BY SaveHistory DEF FirstInv, CleanInv
  <1>3. \A u \in Table : disturbed[u] \subseteq disturbed'[u]
    BY <1>2
  <1>4. FailedDisturbed' /\ BatchFirst' /\ BatchSteady'
    BY <1>1, <1>3, EndFirst DEF Next
  <1>5. LostDisturbed'
    BY <1>2 DEF FirstInv, Excused, LostDisturbed
  <1>6. RowsFirst'
    <2> SUFFICES ASSUME "positions" \in Table, NEW w \in rows'["positions"], Kept(w)'
                 PROVE  w.time = first[w.thing]
      BY <1>1 DEF RowsFirst
    <2>1. Kept(w)
      BY <1>3 DEF Kept
    <2>2. CASE w \in rows["positions"]
      BY <2>1, <2>2 DEF FirstInv, Firsts, RowsFirst
    <2>3. CASE w \notin rows["positions"]
      <3>1. t = "positions" /\ w \in batch[j]
        <4>1. \A u \in Table \ {t} : rows'[u] = rows[u]
          BY SaveFrame DEF FirstInv, CleanInv
        <4>2. t = "positions"
          BY <2>3, <4>1
        <4>3. w.thing[1] \notin Struck(j)
          BY <1>2, <4>2 DEF Kept
        <4> QED
          BY <2>3, <4>2, <4>3, SaveFrame DEF FirstInv, CleanInv
      <3> QED
        BY <1>1, <2>1, <3>1 DEF FirstInv, Firsts, BatchFirst
    <2> QED
      BY <2>2, <2>3
  <1> QED
    BY <1>4, <1>5, <1>6 DEF Excused, Firsts

LEMMA RejectFirst ==
  ASSUME FirstInv, NEW j \in Job, Reject(j), TypeInv'
  PROVE  Excused' /\ Firsts'
  <1> DEFINE S == IF Deleted(j) THEN job[j].owners ELSE {}
             t == job[j].table
  <1>1. /\ End({j}) /\ Touch(t, S)
        /\ lost' = [lost EXCEPT ![t] = @ \cup S]
        /\ rows' = rows /\ first' = first
    BY DEF Reject
  <1> HIDE DEF S
  <1>2. \A u \in Table : disturbed[u] \subseteq disturbed'[u]
    BY <1>1, TouchGrows DEF FirstInv, CleanInv
  <1>3. FailedDisturbed' /\ BatchFirst' /\ BatchSteady'
    BY <1>1, <1>2, EndFirst DEF Next
  <1>4. LostDisturbed'
    BY <1>1 DEF Touch, FirstInv, CleanInv, TypeInv, TypeOK, Excused, LostDisturbed
  <1>5. RowsFirst'
    BY <1>1, <1>2 DEF FirstInv, Firsts, RowsFirst, Kept
  <1> QED
    BY <1>3, <1>4, <1>5 DEF Excused, Firsts

LEMMA RestartFirst ==
  ASSUME FirstInv, Restart, TypeInv'
  PROVE  Excused' /\ Firsts'
  <1>1. /\ End(Job) /\ rows' = rows /\ first' = first
        /\ \A u \in Table : disturbed'[u] = disturbed[u] \cup Window(u)
        /\ \A u \in Table : lost'[u] = lost[u] \cup Window(u)
    BY DEF Restart
  <1>2. FailedDisturbed' /\ BatchFirst' /\ BatchSteady'
    BY <1>1, EndFirst DEF Next
  <1>3. LostDisturbed'
    BY <1>1 DEF FirstInv, Excused, LostDisturbed
  <1>4. RowsFirst'
    BY <1>1 DEF FirstInv, Firsts, RowsFirst, Kept
  <1> QED
    BY <1>2, <1>3, <1>4 DEF Excused, Firsts

LEMMA SameFirst ==
  ASSUME FirstInv, TypeInv', UNCHANGED <<rows, pc, job, batch, disturbed, lost, first>>,
         \A u \in Table : SteadyIn(u)' = SteadyIn(u)
  PROVE  Excused' /\ Firsts'
  <1>1. Excused'
    BY DEF FirstInv, Excused, FailedDisturbed, LostDisturbed
  <1>2. RowsFirst' /\ BatchFirst'
    BY DEF FirstInv, Firsts, RowsFirst, BatchFirst, Kept
  <1>3. BatchSteady'
    <2> SUFFICES ASSUME NEW i \in Job, pc'[i] = "merge", NEW w \in batch'[i], w.thing \in Steady
                 PROVE  w.thing \in SteadyIn("positions")'
      BY DEF BatchSteady
    <2>1. "positions" \in Table
      BY DEF TypeInv, TypeOK, MergesPositions
    <2> QED
      BY <2>1 DEF FirstInv, Firsts, BatchSteady
  <1> QED
    BY <1>1, <1>2, <1>3 DEF Firsts

LEMMA NextFirst ==
  ASSUME FirstInv, [Next]_vars
  PROVE  FirstInv'
  <1>1. RowsInv' /\ CleanInv' /\ TypeInv'
    BY NextRows, NextClean DEF FirstInv, CleanInv
  <1>2. CASE UNCHANGED vars
    <2>1. \A u \in Table : SteadyIn(u)' = SteadyIn(u)
      BY <1>2 DEF vars, SteadyIn, Held, OpenPositions, OpenOrders
    <2> QED
      BY <1>1, <1>2, <2>1, SameFirst DEF FirstInv, vars, jobs, history
  <1>3. ASSUME NEW a \in Asset, Move(a) PROVE FirstInv'
    <2>1. \A u \in Table : SteadyIn(u)' = SteadyIn(u)
      BY <1>3, SteadyKept DEF FirstInv, CleanInv, Next
    <2> QED
      BY <1>1, <1>3, <2>1, SameFirst DEF FirstInv, Move, jobs, history
  <1> QED
    BY <1>1, <1>2, <1>3, FetchFirst, AddNewFirst, MergeFirst, DeleteFirst, LookFirst,
       SaveFirst, RejectFirst, RestartFirst DEF Next, FirstInv

\* A position that stays open keeps the time, creation date and profit of its first
\* row as long as its owner's refreshes come one at a time and succeed, and no save
\* meets a row of its millisecond.
THEOREM FirstRowsKept == Spec => []FirstSeenKept
  <1>1. FirstInv => FirstSeenKept
    BY DEF FirstInv, Firsts, RowsFirst, Kept, FirstSeenKept
  <1> QED
    BY <1>1, InitFirst, NextFirst, PTL DEF Spec

-----------------------------------------------------------------------------
(***************************************************************************)
(* DuplicatesBounded.  A refresh that saves may add one row for a thing,   *)
(* but it deleted all of them before; so the refreshes that deleted and    *)
(* have not saved are counted with the rows.                               *)
(***************************************************************************)
Duplicates(t, a) == {w \in rows[t] : w.thing = a}

Pending(t, o) == {j \in Job : pc[j] \in {"save", "write"} /\ job[j].table = t /\ o \in job[j].owners}

AddCrowds == \A j \in Job : pc[j] \in {"add", "insert"} => job[j].owners \subseteq crowded[job[j].table]

\* There is room for what the pending refreshes may still save.
Room(t, a) ==
  /\ IsFiniteSet(Duplicates(t, a))
  /\ Cardinality(Duplicates(t, a)) + Cardinality(Pending(t, a[1])) <= Cardinality(Job)

AllRoom == \A t \in Table : \A a \in Thing : a[1] \notin crowded[t] => Room(t, a)

RoomInv == CleanInv /\ AddCrowds /\ AllRoom

LEMMA PendingFinite ==
  ASSUME NEW t, NEW o
  PROVE  /\ IsFiniteSet(Pending(t, o))
         /\ Cardinality(Pending(t, o)) \in Nat
         /\ Cardinality(Pending(t, o)) <= Cardinality(Job)
         /\ Cardinality(Job) \in Nat
  <1>1. Pending(t, o) \in SUBSET Job
    BY DEF Pending
  <1>2. IsFiniteSet(Pending(t, o)) /\ Cardinality(Pending(t, o)) <= Cardinality(Job)
    BY <1>1, JobAssumption, FS_Subset
  <1> QED
    BY <1>2, JobAssumption, FS_CardinalityType

\* Fewer rows and fewer pending refreshes need no more room.
LEMMA RoomKept ==
  ASSUME NEW t, NEW a, Room(t, a),
         Duplicates(t, a)' \in SUBSET Duplicates(t, a),
         Pending(t, a[1])' \in SUBSET Pending(t, a[1])
  PROVE  Room(t, a)'
  <1>1. /\ IsFiniteSet(Duplicates(t, a)')
        /\ Cardinality(Duplicates(t, a)') <= Cardinality(Duplicates(t, a))
    BY FS_Subset DEF Room
  <1>2. Cardinality(Pending(t, a[1])') <= Cardinality(Pending(t, a[1]))
    BY PendingFinite, FS_Subset
  <1>3. /\ Cardinality(Duplicates(t, a)) \in Nat /\ Cardinality(Duplicates(t, a)') \in Nat
        /\ Cardinality(Pending(t, a[1])) \in Nat /\ Cardinality(Job) \in Nat
    BY <1>1, PendingFinite, FS_CardinalityType DEF Room
  <1>4. IsFiniteSet(Pending(t, a[1])')
    BY PendingFinite, FS_Subset
  <1>5. Cardinality(Pending(t, a[1])') \in Nat
    BY <1>4, FS_CardinalityType
  <1>6. Cardinality(Duplicates(t, a)) + Cardinality(Pending(t, a[1])) <= Cardinality(Job)
    BY DEF Room
  <1>7. Cardinality(Duplicates(t, a)') + Cardinality(Pending(t, a[1])') <= Cardinality(Job)
    BY <1>1, <1>2, <1>3, <1>5, <1>6
  <1> QED
    BY <1>1, <1>7 DEF Room

\* One refresh fewer is pending, and it added one row.
LEMMA RoomUsed ==
  ASSUME NEW t, NEW a, Room(t, a), NEW x, NEW j \in Pending(t, a[1]),
         Duplicates(t, a)' \in SUBSET (Duplicates(t, a) \cup {x}),
         Pending(t, a[1])' = Pending(t, a[1]) \ {j}
  PROVE  Room(t, a)'
  <1> DEFINE D == Duplicates(t, a)
             P == Pending(t, a[1])
             E == D \cup {x}
  <1>1. IsFiniteSet(D) /\ Cardinality(D) + Cardinality(P) <= Cardinality(Job)
    BY DEF Room
  <1>2. /\ Cardinality(D) \in Nat
        /\ IsFiniteSet(E) /\ Cardinality(E) <= Cardinality(D) + 1
    <2>1. /\ IsFiniteSet(E)
          /\ Cardinality(E) = IF x \in D THEN Cardinality(D) ELSE Cardinality(D) + 1
      BY <1>1, FS_AddElement
    <2>2. Cardinality(D) \in Nat
      BY <1>1, FS_CardinalityType
    <2> QED
      <3> HIDE DEF D, E
      <3> QED
        BY <2>1, <2>2
  <1>3. /\ IsFiniteSet(Duplicates(t, a)')
        /\ Cardinality(Duplicates(t, a)') <= Cardinality(E)
    BY <1>2, FS_Subset
  <1>4. Cardinality(E) \in Nat /\ Cardinality(Duplicates(t, a)') \in Nat
    BY <1>2, <1>3, FS_CardinalityType
  <1>5. Cardinality(P) \in Nat /\ Cardinality(Job) \in Nat
    BY PendingFinite
  <1>6. Cardinality(Pending(t, a[1])') = Cardinality(P) - 1
    <2> j \in P /\ IsFiniteSet(P)
      BY PendingFinite
    <2> HIDE DEF P
    <2>1. Cardinality(P \ {j}) = Cardinality(P) - 1
      BY FS_RemoveElement
    <2> QED
      BY <2>1 DEF P
  <1>7. Cardinality(Duplicates(t, a)') + Cardinality(Pending(t, a[1])') <= Cardinality(Job)
    <2> HIDE DEF D, P, E
    <2> QED
      BY <1>1, <1>2, <1>3, <1>4, <1>5, <1>6
  <1> QED
    BY <1>3, <1>7 DEF Room

\* The rows are gone, whatever is pending.
LEMMA RoomEmpty ==
  ASSUME NEW t, NEW a, Duplicates(t, a)' = {}, Pending(t, a[1])' \in SUBSET Job
  PROVE  Room(t, a)'
  <1>1. IsFiniteSet(Duplicates(t, a)') /\ Cardinality(Duplicates(t, a)') = 0
    BY FS_EmptySet
  <1>2. /\ IsFiniteSet(Pending(t, a[1])')
        /\ Cardinality(Pending(t, a[1])') <= Cardinality(Job)
    BY JobAssumption, FS_Subset
  <1>3. Cardinality(Pending(t, a[1])') \in Nat /\ Cardinality(Job) \in Nat
    BY <1>2, JobAssumption, FS_CardinalityType
  <1>4. Cardinality(Duplicates(t, a)') + Cardinality(Pending(t, a[1])') <= Cardinality(Job)
    BY <1>1, <1>2, <1>3
  <1> QED
    BY <1>1, <1>4 DEF Room

LEMMA InitRoom == Init => RoomInv
  <1> SUFFICES ASSUME Init PROVE RoomInv
    OBVIOUS
  <1>1. CleanInv
    BY InitClean
  <1>2. AddCrowds
    BY DEF Init, AddCrowds
  <1>3. AllRoom
    <2> SUFFICES ASSUME NEW t \in Table, NEW a \in Thing PROVE Room(t, a)
      BY DEF AllRoom
    <2> DEFINE x == [id |-> <<0, a>>, thing |-> a, time |-> first[a]]
    <2>1. Duplicates(t, a) \in SUBSET {x}
      BY DEF Init, Duplicates
    <2>2. IsFiniteSet({x}) /\ Cardinality({x}) = 1
      BY FS_Singleton
    <2>3. IsFiniteSet(Duplicates(t, a)) /\ Cardinality(Duplicates(t, a)) <= 1
      <3> HIDE DEF x
      <3> QED
        BY <2>1, <2>2, FS_Subset
    <2>4. Pending(t, a[1]) = {}
      BY DEF Init, Pending
    <2>5. Cardinality(Pending(t, a[1])) = 0
      BY <2>4, FS_EmptySet
    <2>6. Cardinality(Job) # 0 /\ Cardinality(Job) \in Nat
      BY JobAssumption, FS_EmptySet, FS_CardinalityType
    <2>7. Cardinality(Duplicates(t, a)) \in Nat
      BY <2>3, FS_CardinalityType
    <2>8. Cardinality(Duplicates(t, a)) + Cardinality(Pending(t, a[1])) <= Cardinality(Job)
      BY <2>3, <2>5, <2>6, <2>7
    <2> QED
      BY <2>3, <2>8 DEF Room
  <1> QED
    BY <1>1, <1>2, <1>3 DEF RoomInv

\* A step that saves nothing, and after which no refresh is newly pending.
LEMMA SameRoom ==
  ASSUME RoomInv, UNCHANGED rows,
         \A u \in Table : crowded[u] \subseteq crowded'[u],
         \A i \in Job : pc'[i] \in {"save", "write"} => /\ pc[i] \in {"save", "write"}
                             /\ job'[i].table = job[i].table
                             /\ job'[i].owners = job[i].owners
  PROVE  AllRoom'
  <1> SUFFICES ASSUME NEW t \in Table, NEW a \in Thing, a[1] \notin crowded'[t]
               PROVE  Room(t, a)'
    BY DEF AllRoom
  <1>1. Room(t, a)
    BY DEF RoomInv, AllRoom
  <1>2. Duplicates(t, a)' \in SUBSET Duplicates(t, a)
    BY DEF Duplicates
  <1>3. Pending(t, a[1])' \in SUBSET Pending(t, a[1])
    BY DEF Pending
  <1> QED
    BY <1>1, <1>2, <1>3, RoomKept

LEMMA FetchRoom ==
  ASSUME RoomInv, NEW j \in Job, Fetch(j)
  PROVE  AddCrowds' /\ AllRoom'
  <1>1. TypeInv
    BY DEF RoomInv, CleanInv
  <1>2. PICK S \in SUBSET Owner : \E failed \in SUBSET S : \E things \in SUBSET Thing :
          Fetched(j, S, failed, things)
    BY <1>1, FetchFetched
  <1>3. PICK failed \in SUBSET S : \E things \in SUBSET Thing : Fetched(j, S, failed, things)
    BY <1>2
  <1>4. PICK things \in SUBSET Thing : Fetched(j, S, failed, things)
    BY <1>3
  <1>5. \A i \in Job \ {j} : job'[i] = job[i]
    BY <1>1, <1>4, BegunFrame DEF Fetched
  <1>6. /\ \A i \in Job \ {j} : pc'[i] = pc[i]
        /\ pc'[j] \in {"merge", "delete"}
        /\ UNCHANGED <<rows, crowded>>
    BY <1>1, <1>4 DEF Fetched, Goto, TypeInv, TypeOK
  <1>7. AddCrowds'
    BY <1>5, <1>6 DEF RoomInv, AddCrowds
  <1>8. \A i \in Job : pc'[i] \in {"save", "write"} => pc[i] \in {"save", "write"} /\ job'[i] = job[i]
    BY <1>5, <1>6
  <1> QED
    BY <1>6, <1>7, <1>8, SameRoom

LEMMA AddNewRoom ==
  ASSUME RoomInv, NEW j \in Job, AddNew(j)
  PROVE  AddCrowds' /\ AllRoom'
  <1> DEFINE t == job[j].table
  <1>1. TypeInv
    BY DEF RoomInv, CleanInv
  <1>2. PICK o \in Owner : \E failed \in SUBSET {o} : \E things \in SUBSET Thing :
          Adding(j, o, failed, things)
    BY <1>1, AddNewAdding
  <1>2a. PICK failed \in SUBSET {o} : \E things \in SUBSET Thing : Adding(j, o, failed, things)
    BY <1>2
  <1>2b. PICK things \in SUBSET Thing : Adding(j, o, failed, things)
    BY <1>2a
  <1>3. Begun(j, {o}, failed, things)
    BY <1>2b DEF Adding
  <1>4. /\ \A i \in Job \ {j} : job'[i] = job[i]
        /\ job'[j] = [table |-> t, owners |-> {o}, failed |-> failed, found |-> {}]
    BY <1>1, <1>3, BegunFrame
  <1>5. /\ \A i \in Job \ {j} : pc'[i] = pc[i]
        /\ pc'[j] = "add"
        /\ UNCHANGED rows
        /\ t \in Table
        /\ crowded'[t] = crowded[t] \cup {o}
        /\ \A u \in Table \ {t} : crowded'[u] = crowded[u]
    BY <1>1, <1>2b DEF Adding, TypeInv, TypeOK
  <1>6. \A u \in Table : crowded[u] \subseteq crowded'[u]
    BY <1>5
  <1>7. AddCrowds'
    <2> SUFFICES ASSUME NEW i \in Job, pc'[i] \in {"add", "insert"}
                 PROVE  job'[i].owners \subseteq crowded'[job'[i].table]
      BY DEF AddCrowds
    <2>1. CASE i = j
      BY <1>4, <1>5, <2>1
    <2>2. CASE i # j
      <3>1. job[i].table \in Table
        BY <1>1 DEF TypeInv, TypeOK
      <3>2. job[i].owners \subseteq crowded[job[i].table]
        BY <1>5, <2>2 DEF RoomInv, AddCrowds
      <3> QED
        BY <1>4, <1>6, <2>2, <3>1, <3>2
    <2> QED
      BY <2>1, <2>2
  <1>8. \A i \in Job : pc'[i] \in {"save", "write"} => pc[i] \in {"save", "write"} /\ job'[i] = job[i]
    BY <1>4, <1>5
  <1> QED
    BY <1>5, <1>6, <1>7, <1>8, SameRoom

LEMMA MergeRoom ==
  ASSUME RoomInv, NEW j \in Job, Merge(j)
  PROVE  AddCrowds' /\ AllRoom'
  <1>1. /\ \A i \in Job : pc'[i] = pc[i] \/ pc'[i] = "delete"
        /\ job' = job /\ rows' = rows /\ crowded' = crowded
    BY DEF Merge, Goto, history, RoomInv, CleanInv, TypeInv, TypeOK
  <1>2. AddCrowds'
    BY <1>1 DEF RoomInv, AddCrowds
  <1>3. \A i \in Job : pc'[i] \in {"save", "write"} => pc[i] \in {"save", "write"} /\ job'[i] = job[i]
    BY <1>1
  <1> QED
    BY <1>1, <1>2, <1>3, SameRoom

LEMMA DeleteRoom ==
  ASSUME RoomInv, NEW j \in Job, Delete(j)
  PROVE  AddCrowds' /\ AllRoom'
  <1> DEFINE u == job[j].table
  <1>1. /\ u \in Table
        /\ rows'[u] = rows[u] \ RowsOf(u, job[j].owners)
        /\ \A t \in Table \ {u} : rows'[t] = rows[t]
        /\ \A i \in Job \ {j} : pc'[i] = pc[i]
        /\ pc'[j] = "save"
        /\ job' = job /\ crowded' = crowded
    BY DEF Delete, Doomed, Goto, RoomInv, CleanInv, TypeInv, TypeOK
  <1>2. AddCrowds'
    BY <1>1 DEF RoomInv, AddCrowds
  <1>3. AllRoom'
    <2> SUFFICES ASSUME NEW t \in Table, NEW a \in Thing, a[1] \notin crowded[t]
                 PROVE  Room(t, a)'
      BY <1>1 DEF AllRoom
    <2>1. CASE t = u /\ a[1] \in job[j].owners
      <3>1. Duplicates(t, a)' = {}
        BY <1>1, <2>1 DEF Duplicates, RowsOf
      <3>2. Pending(t, a[1])' \in SUBSET Job
        BY DEF Pending
      <3> QED
        BY <3>1, <3>2, RoomEmpty
    <2>2. CASE ~(t = u /\ a[1] \in job[j].owners)
      <3>1. Duplicates(t, a)' \in SUBSET Duplicates(t, a)
        BY <1>1 DEF Duplicates
      <3>2. Pending(t, a[1])' \in SUBSET Pending(t, a[1])
        BY <1>1, <2>2 DEF Pending
      <3> QED
        BY <3>1, <3>2, RoomKept DEF RoomInv, AllRoom
    <2> QED
      BY <2>1, <2>2
  <1> QED
    BY <1>2, <1>3

LEMMA LookRoom ==
  ASSUME RoomInv, NEW j \in Job, Look(j)
  PROVE  AddCrowds' /\ AllRoom'
  <1>1. /\ pc[j] \in {"save", "add"}
        /\ pc'[j] = IF pc[j] = "save" THEN "write" ELSE "insert"
        /\ \A i \in Job \ {j} : pc'[i] = pc[i]
        /\ \A i \in Job : /\ job'[i].table = job[i].table
                          /\ job'[i].owners = job[i].owners
        /\ UNCHANGED <<rows, crowded>>
    BY LookFrame DEF RoomInv, CleanInv, history
  <1>2. AddCrowds'
    BY <1>1 DEF RoomInv, AddCrowds
  <1> QED
    BY <1>1, <1>2, SameRoom

\* What an ended refresh leaves to the others.
LEMMA EndRoom ==
  ASSUME RoomInv, NEW S \in SUBSET Job, End(S),
         \A u \in Table : crowded[u] \subseteq crowded'[u]
  PROVE  /\ AddCrowds'
         /\ \A i \in Job : pc'[i] \in {"save", "write"} => i \notin S /\ pc[i] \in {"save", "write"} /\ job'[i] = job[i]
  <1>1. /\ \A i \in Job \ S : pc'[i] = pc[i] /\ job'[i] = job[i]
        /\ \A i \in S : pc'[i] = "idle"
    BY EndFrame DEF RoomInv, CleanInv
  <1> QED
    BY <1>1 DEF RoomInv, CleanInv, TypeInv, TypeOK, AddCrowds

LEMMA SaveRoom ==
  ASSUME RoomInv, NEW j \in Job, Save(j)
  PROVE  AddCrowds' /\ AllRoom'
  <1> DEFINE u == job[j].table
  <1>1. /\ pc[j] \in {"write", "insert"}
        /\ End({j})
        /\ u \in Table
    BY DEF Save, RoomInv, CleanInv, TypeInv, TypeOK
  <1>2. /\ crowded'[u] = crowded[u] \cup Struck(j)
        /\ \A t \in Table \ {u} : crowded'[t] = crowded[t]
    BY SaveHistory DEF RoomInv, CleanInv
  <1>3. /\ \A t \in Table \ {u} : rows'[t] = rows[t]
        /\ \A w \in rows'[u] : w.thing[1] \in Struck(j) \/ w \in rows[u] \cup batch[j]
    BY SaveFrame DEF RoomInv, CleanInv
  <1>4. \A t \in Table : crowded[t] \subseteq crowded'[t]
    BY <1>2
  <1>5. /\ AddCrowds'
        /\ \A i \in Job : pc'[i] \in {"save", "write"} =>
             i # j /\ pc[i] \in {"save", "write"} /\ job'[i] = job[i]
    BY <1>1, <1>4, EndRoom
  <1>6. /\ \A w \in batch[j] : w.thing[1] \in job[j].owners
        /\ \A v, w \in batch[j] : v.thing = w.thing => v = w
    BY DEF RoomInv, CleanInv, OneAtATime, BatchOwned, BatchSingle
  <1> HIDE DEF u
  <1>7. AllRoom'
    <2> SUFFICES ASSUME NEW t \in Table, NEW a \in Thing, a[1] \notin crowded'[t]
                 PROVE  Room(t, a)'
      BY DEF AllRoom
    <2>1. Room(t, a)
      BY <1>4 DEF RoomInv, AllRoom
    <2>2. Duplicates(t, a)' \in SUBSET (Duplicates(t, a) \cup {w \in batch[j] : t = u /\ w.thing = a})
      BY <1>2, <1>3 DEF Duplicates
    <2>3. CASE \E w \in batch[j] : t = u /\ w.thing = a
      <3>1. PICK x \in batch[j] : t = u /\ x.thing = a
        BY <2>3
      <3>2. a[1] \in job[j].owners
        BY <1>6, <3>1
      <3>3. pc[j] = "write"
        BY <1>1, <1>4, <3>1, <3>2 DEF RoomInv, AddCrowds, u
      <3>4. j \in Pending(t, a[1])
        BY <3>1, <3>2, <3>3 DEF Pending, u
      <3>5. Duplicates(t, a)' \in SUBSET (Duplicates(t, a) \cup {x})
        BY <1>6, <2>2, <3>1
      <3>6. Pending(t, a[1])' = Pending(t, a[1]) \ {j}
        <4>1. \A i \in Job \ {j} : pc'[i] = pc[i] /\ job'[i] = job[i]
          BY <1>1, EndFrame DEF RoomInv, CleanInv
        <4> QED
          BY <1>5, <4>1 DEF Pending
      <3> QED
        BY <2>1, <3>4, <3>5, <3>6, RoomUsed
    <2>4. CASE \A w \in batch[j] : ~(t = u /\ w.thing = a)
      <3>1. Duplicates(t, a)' \in SUBSET Duplicates(t, a)
        BY <2>2, <2>4
      <3>2. Pending(t, a[1])' \in SUBSET Pending(t, a[1])
        BY <1>5 DEF Pending
      <3> QED
        BY <2>1, <3>1, <3>2, RoomKept
    <2> QED
      BY <2>3, <2>4
  <1> QED
    BY <1>5, <1>7

LEMMA NextRoom ==
  ASSUME RoomInv, [Next]_vars
  PROVE  RoomInv'
  <1>1. CleanInv'
    BY NextClean DEF RoomInv
  <1>2. CASE UNCHANGED vars
    <2>1. AddCrowds'
      BY <1>2 DEF RoomInv, AddCrowds, vars, jobs, history
    <2>2. AllRoom'
      BY <1>2, SameRoom DEF vars, jobs, history
    <2> QED
      BY <1>1, <2>1, <2>2 DEF RoomInv
  <1>3. ASSUME NEW a \in Asset, Move(a) PROVE AddCrowds' /\ AllRoom'
    <2>1. UNCHANGED <<rows, pc, job, crowded>>
      BY <1>3 DEF Move, jobs, history
    <2>2. AddCrowds'
      BY <2>1 DEF RoomInv, AddCrowds
    <2> QED
      BY <2>1, <2>2, SameRoom
  <1>4. ASSUME NEW j \in Job, Reject(j) PROVE AddCrowds' /\ AllRoom'
    <2>1. End({j}) /\ UNCHANGED <<rows, crowded>>
      BY <1>4 DEF Reject
    <2> QED
      BY <2>1, EndRoom, SameRoom
  <1>5. ASSUME Restart PROVE AddCrowds' /\ AllRoom'
    <2>1. End(Job) /\ UNCHANGED <<rows, crowded>>
      BY <1>5 DEF Restart
    <2> QED
      BY <2>1, EndRoom, SameRoom
  <1> QED
    BY <1>1, <1>2, <1>3, <1>4, <1>5, FetchRoom, AddNewRoom, MergeRoom, DeleteRoom,
       LookRoom, SaveRoom DEF Next, RoomInv

\* However refreshes overlap, stop or fail, one thing never has more rows than
\* there are refreshes at a time, unless rows were saved without deleting any or over
\* rows of their millisecond.
THEOREM FewDuplicates == Spec => []DuplicatesBounded
  <1>1. RoomInv => DuplicatesBounded
    <2> SUFFICES ASSUME RoomInv, NEW t \in Table, NEW a \in Thing, a[1] \notin crowded[t]
                 PROVE  Cardinality(Duplicates(t, a)) <= Cardinality(Job)
      BY DEF DuplicatesBounded, Duplicates
    <2>1. Room(t, a)
      BY DEF RoomInv, AllRoom
    <2>2. Cardinality(Duplicates(t, a)) \in Nat
      BY <2>1, FS_CardinalityType DEF Room
    <2> QED
      BY <2>1, <2>2, PendingFinite DEF Room
  <1> QED
    BY <1>1, InitRoom, NextRoom, PTL DEF Spec

=============================================================================
